---- MODULE Spec2Model ----
(***************************************************************************)
(* A model of the WebSocket engine of src/src/WebSocket.cpp                *)
(* (WebSockets::WebSocket and its Impl): the frame decoder and encoder,    *)
(* the message assembler, the close state machine, the event queue and     *)
(* its dispatcher, and the threads that run them.                          *)
(*                                                                         *)
(* Octets are the integers 0..255; a std::string or std::vector<uint8_t>   *)
(* is a sequence of octets.  The engine (struct Impl, together with the    *)
(* Http::Connection it points to) is the record held by the variable impl. *)
(* The private methods of Impl are operators from engine records to engine *)
(* records; a step of a thread applies them to impl.                       *)
(***************************************************************************)
EXTENDS Integers, Sequences, FiniteSets, TLC

(***************************************************************************)
(* Program constants.                                                      *)
(***************************************************************************)
FIN == 128
MASK == 128
OPCODE_CONTINUATION == 0
OPCODE_TEXT == 1
OPCODE_BINARY == 2
OPCODE_CLOSE == 8
OPCODE_PING == 9
OPCODE_PONG == 10
MAX_CONTROL_FRAME_DATA_LENGTH == 125

FragmentedMessageType == {"None", "Text", "Binary"}
EventType == {"Text", "Binary", "Ping", "Pong", "Close"}
Role == {"Client", "Server"}

(***************************************************************************)
(* The reason texts of the engine's own closes, as octets.                 *)
(***************************************************************************)
ReasonReservedBits == <<114,101,115,101,114,118,101,100,32,98,105,116,115,32,115,101,116>>
ReasonMasked == <<109,97,115,107,101,100,32,102,114,97,109,101>>
ReasonUnmasked == <<117,110,109,97,115,107,101,100,32,102,114,97,109,101>>
ReasonUnexpectedContinuation == <<117,110,101,120,112,101,99,116,101,100,32,99,111,110,116,105,110,117,97,116,105,111,110,32,102,114,97,109,101>>
ReasonLastMessageIncomplete == <<108,97,115,116,32,109,101,115,115,97,103,101,32,105,110,99,111,109,112,108,101,116,101>>
ReasonInvalidUtf8Text == <<105,110,118,97,108,105,100,32,85,84,70,45,56,32,101,110,99,111,100,105,110,103,32,105,110,32,116,101,120,116,32,109,101,115,115,97,103,101>>
ReasonInvalidUtf8Close == <<105,110,118,97,108,105,100,32,85,84,70,45,56,32,101,110,99,111,100,105,110,103,32,105,110,32,99,108,111,115,101,32,114,101,97,115,111,110>>
ReasonUnknownOpcode == <<117,110,107,110,111,119,110,32,111,112,99,111,100,101>>
ReasonFrameTooLarge == <<102,114,97,109,101,32,116,111,111,32,108,97,114,103,101>>
ReasonConnectionBroken == <<99,111,110,110,101,99,116,105,111,110,32,98,114,111,107,101,110,32,98,121,32,112,101,101,114>>

(***************************************************************************)
(* Octet arithmetic.                                                       *)
(***************************************************************************)
\* a ^ b on octets (payload[i] ^ maskingKey[i % 4]).
RECURSIVE Xor(_, _)
Xor(a, b) ==
    IF a = 0 THEN b
    ELSE IF b = 0 THEN a
    ELSE ((a + b) % 2) + 2 * Xor(a \div 2, b \div 2)

\* The masking transform: octet i (counted from 0) is xored with key[i % 4].
MaskPayload(payload, maskingKey) ==
    [i \in 1..Len(payload) |-> Xor(payload[i], maskingKey[((i - 1) % 4) + 1])]

\* The octets of an n-octet big-endian encoding of v.
RECURSIVE BigEndian(_, _)
BigEndian(v, n) ==
    IF n = 0 THEN <<>> ELSE Append(BigEndian(v \div 256, n - 1), v % 256)

\* Utf8::Utf8::IsValidEncoding: every octet belongs to a well-formed UTF-8
\* sequence (shortest form, no surrogates, at most U+10FFFF).
IsContinuationOctet(b) == b >= 128 /\ b <= 191

RECURSIVE IsValidEncoding(_)
IsValidEncoding(str) ==
    IF str = <<>> THEN TRUE
    ELSE LET b == Head(str)
             n == Len(str)
             rest(k) == SubSeq(str, k + 1, n)
         IN  IF b < 128 THEN IsValidEncoding(rest(1))
             ELSE IF b >= 194 /\ b <= 223
             THEN n >= 2 /\ IsContinuationOctet(str[2]) /\ IsValidEncoding(rest(2))
             ELSE IF b >= 224 /\ b <= 239
             THEN /\ n >= 3
                  /\ IsContinuationOctet(str[2]) /\ IsContinuationOctet(str[3])
                  /\ (b = 224 => str[2] >= 160)
                  /\ (b = 237 => str[2] <= 159)
                  /\ IsValidEncoding(rest(3))
             ELSE IF b >= 240 /\ b <= 244
             THEN /\ n >= 4
                  /\ IsContinuationOctet(str[2]) /\ IsContinuationOctet(str[3])
                  /\ IsContinuationOctet(str[4])
                  /\ (b = 240 => str[2] >= 144)
                  /\ (b = 244 => str[2] <= 143)
                  /\ IsValidEncoding(rest(4))
             ELSE FALSE


(***************************************************************************)
(* The engine.                                                             *)
(*                                                                         *)
(* impl is struct Impl.  impl.connection is the Http::Connection the       *)
(* engine points to: bound is FALSE while the pointer is null, sent is the *)
(* sequence of buffers handed to SendData and breaks the sequence of the   *)
(* arguments of the calls of Break.  impl.rng is the masking key the       *)
(* random generator yields to the running call.  An event carries, besides *)
(* the fields of struct Event, its position seq in the order of all pushes *)
(* (impl.pushed counts them) and early, whether it was pushed before any   *)
(* SetDelegates; seq, early and pushed are history, the engine never reads *)
(* them.  http holds the request and the response of the opening handshake *)
(* as the last handshake call left them, and what that call returned.      *)
(***************************************************************************)
VARIABLES impl, mutex, pc, stack, delivered, dropped, taken, calls, chunks, brokenCalls,
          frames, http

vars ==
    <<impl, mutex, pc, stack, delivered, dropped, taken, calls, chunks, brokenCalls, frames,
      http>>

NullMaskingKey == <<0, 0, 0, 0>>

\* struct Impl after Impl::Impl(); role has no initializer.
NewImpl(role) ==
    [ connection |-> [bound |-> FALSE, sent |-> <<>>, breaks |-> <<>>, log |-> <<>>],
      role |-> role,
      rng |-> NullMaskingKey,
      key |-> <<>>,
      maxFrameSize |-> 0,
      closeSent |-> FALSE,
      closeReceived |-> FALSE,
      sending |-> "None",
      receiving |-> "None",
      delegates |-> {},
      delegatesSet |-> FALSE,
      frameReassemblyBuffer |-> <<>>,
      messageReassemblyBuffer |-> <<>>,
      eventQueue |-> <<>>,
      pushed |-> 0 ]

\* connection->SendData(frame)
SendData(s, frame) ==
    [s EXCEPT !.connection.sent = Append(@, frame),
              !.connection.log = Append(@, "SendData")]

\* connection->Break(clean)
Break(s, clean) ==
    [s EXCEPT !.connection.breaks = Append(@, clean),
              !.connection.log = Append(@, "Break")]

\* eventQueue.push(std::move(event))
PushEvent(s, type, content, closeCode) ==
    [s EXCEPT !.eventQueue = Append(@, [type |-> type, content |-> content,
                                        closeCode |-> closeCode,
                                        seq |-> s.pushed + 1,
                                        early |-> ~s.delegatesSet]),
              !.pushed = @ + 1]

\* A faulty OnClose: it breaks the transport whether or not a close frame
\* was sent before.
OnCloseBreaksAlways(s, code, reason) ==
    Break(PushEvent([s EXCEPT !.closeReceived = TRUE], "Close", reason, code), FALSE)

\* Impl::OnClose
OnClose(s, code, reason) ==
    LET closeSentEarlier == s.closeSent
        s1 == PushEvent([s EXCEPT !.closeReceived = TRUE], "Close", reason, code)
    IN  IF closeSentEarlier THEN Break(s1, FALSE) ELSE s1

\* The length octets of a frame header for a payload of n octets.
LengthOctets(n, mask) ==
    IF n < 126 THEN <<((n % 256) + mask) % 256>>
    ELSE IF n < 65536 THEN <<126 + mask, (n \div 256) % 256, n % 256>>
    ELSE <<127 + mask>> \o BigEndian(n, 8)

\* A faulty SendFrame: the masking key is written after the payload is
\* masked with the key shifted by one octet.
SendFrameKeyShifted(s, fin, opcode, payload) ==
    LET first == ((IF fin THEN FIN ELSE 0) + opcode) % 256
        mask == IF s.role = "Client" THEN MASK ELSE 0
        header == <<first>> \o LengthOctets(Len(payload), mask)
        maskingKey == s.rng
        frame == IF mask = 0
                 THEN header \o payload
                 ELSE header \o maskingKey
                          \o MaskPayload(payload, Tail(maskingKey) \o <<Head(maskingKey)>>)
    IN  SendData(s, frame)

\* Impl::SendFrame
SendFrame(s, fin, opcode, payload) ==
    LET first == ((IF fin THEN FIN ELSE 0) + opcode) % 256
        mask == IF s.role = "Client" THEN MASK ELSE 0
        header == <<first>> \o LengthOctets(Len(payload), mask)
        maskingKey == s.rng
        frame == IF mask = 0
                 THEN header \o payload
                 ELSE header \o maskingKey \o MaskPayload(payload, maskingKey)
    IN  SendData(s, frame)

\* A faulty Close: it does not look at closeSent.
CloseRepeated(s, code, reason, fail) ==
    LET s1 == [s EXCEPT !.closeSent = TRUE]
    IN  IF code = 1006 THEN OnClose(s1, code, reason)
        ELSE LET data == IF code # 1005
                         THEN <<(code \div 256) % 256, code % 256>> \o reason
                         ELSE <<>>
                 s2 == SendFrame(s1, TRUE, OPCODE_CLOSE, data)
             IN  IF fail THEN OnClose(s2, code, reason)
                 ELSE IF s2.closeReceived THEN Break(s2, TRUE)
                 ELSE s2

\* A faulty Close: the close frame carries the code 1005 as well.
CloseAlwaysCoded(s, code, reason, fail) ==
    IF s.closeSent THEN s
    ELSE LET s1 == [s EXCEPT !.closeSent = TRUE]
         IN  IF code = 1006 THEN OnClose(s1, code, reason)
             ELSE LET data == <<(code \div 256) % 256, code % 256>> \o reason
                      s2 == SendFrame(s1, TRUE, OPCODE_CLOSE, data)
                  IN  IF fail THEN OnClose(s2, code, reason)
                      ELSE IF s2.closeReceived THEN Break(s2, TRUE)
                      ELSE s2

\* A faulty Close: it breaks the transport and then writes the close frame.
CloseBreaksFirst(s, code, reason, fail) ==
    IF s.closeSent THEN s
    ELSE LET s1 == [s EXCEPT !.closeSent = TRUE]
         IN  IF code = 1006 THEN OnClose(s1, code, reason)
             ELSE LET data == IF code # 1005
                              THEN <<(code \div 256) % 256, code % 256>> \o reason
                              ELSE <<>>
                  IN  IF fail THEN SendFrame(OnClose(s1, code, reason),
                                             TRUE, OPCODE_CLOSE, data)
                      ELSE IF s1.closeReceived
                      THEN SendFrame(Break(s1, TRUE), TRUE, OPCODE_CLOSE, data)
                      ELSE SendFrame(s1, TRUE, OPCODE_CLOSE, data)

\* Impl::Close
Close(s, code, reason, fail) ==
    IF s.closeSent THEN s
    ELSE LET s1 == [s EXCEPT !.closeSent = TRUE]
         IN  IF code = 1006 THEN OnClose(s1, code, reason)
             ELSE LET data == IF code # 1005
                              THEN <<(code \div 256) % 256, code % 256>> \o reason
                              ELSE <<>>
                      s2 == SendFrame(s1, TRUE, OPCODE_CLOSE, data)
                  IN  IF fail THEN OnClose(s2, code, reason)
                      ELSE IF s2.closeReceived THEN Break(s2, TRUE)
                      ELSE s2

\* Impl::OnTextMessage
OnTextMessage(s, message) ==
    IF IsValidEncoding(message)
    THEN PushEvent(s, "Text", message, 0)
    ELSE Close(s, 1007, ReasonInvalidUtf8Text, TRUE)

\* Impl::OnBinaryMessage
OnBinaryMessage(s, message) == PushEvent(s, "Binary", message, 0)

\* The fields of the frame at the head of the reassembly buffer fb, as
\* Impl::ReceiveFrame reads them.
FrameFin(fb) == (fb[1] \div FIN) % 2 # 0
FrameReservedBits(fb) == (fb[1] \div 16) % 8
FrameMask(fb) == (fb[2] \div MASK) % 2 # 0
FrameOpcode(fb) == fb[1] % 16

\* The payload of the frame at the head of fb (unmasked when the engine is a
\* server, copied when it is a client).
FramePayload(fb, role, headerLength, payloadLength) ==
    IF role = "Server"
    THEN [i \in 1..payloadLength |->
              Xor(fb[headerLength + i], fb[headerLength - 4 + ((i - 1) % 4) + 1])]
    ELSE SubSeq(fb, headerLength + 1, headerLength + payloadLength)

\* A faulty continuation case: the fragment replaces the message buffer.
ReceiveContinuationAlone(s, fin, data) ==
    LET s1 == [s EXCEPT !.messageReassemblyBuffer = data]
        s2 == CASE s1.receiving = "Text" ->
                     IF fin THEN OnTextMessage(s1, s1.messageReassemblyBuffer) ELSE s1
                [] s1.receiving = "Binary" ->
                     IF fin THEN OnBinaryMessage(s1, s1.messageReassemblyBuffer) ELSE s1
                [] OTHER ->
                     Close([s1 EXCEPT !.messageReassemblyBuffer = <<>>],
                           1002, ReasonUnexpectedContinuation, TRUE)
    IN  IF fin
        THEN [s2 EXCEPT !.receiving = "None", !.messageReassemblyBuffer = <<>>]
        ELSE s2

\* A faulty continuation case: an unexpected fragment stays in the message
\* buffer.
ReceiveContinuationKept(s, fin, data) ==
    LET s1 == [s EXCEPT !.messageReassemblyBuffer = @ \o data]
        s2 == CASE s1.receiving = "Text" ->
                     IF fin THEN OnTextMessage(s1, s1.messageReassemblyBuffer) ELSE s1
                [] s1.receiving = "Binary" ->
                     IF fin THEN OnBinaryMessage(s1, s1.messageReassemblyBuffer) ELSE s1
                [] OTHER ->
                     Close(s1, 1002, ReasonUnexpectedContinuation, TRUE)
    IN  IF fin
        THEN [s2 EXCEPT !.receiving = "None", !.messageReassemblyBuffer = <<>>]
        ELSE s2

\* Impl::ReceiveFrame, case OPCODE_CONTINUATION
ReceiveContinuation(s, fin, data) ==
    LET s1 == [s EXCEPT !.messageReassemblyBuffer = @ \o data]
        s2 == CASE s1.receiving = "Text" ->
                     IF fin THEN OnTextMessage(s1, s1.messageReassemblyBuffer) ELSE s1
                [] s1.receiving = "Binary" ->
                     IF fin THEN OnBinaryMessage(s1, s1.messageReassemblyBuffer) ELSE s1
                [] OTHER ->
                     Close([s1 EXCEPT !.messageReassemblyBuffer = <<>>],
                           1002, ReasonUnexpectedContinuation, TRUE)
    IN  IF fin
        THEN [s2 EXCEPT !.receiving = "None", !.messageReassemblyBuffer = <<>>]
        ELSE s2

\* Impl::ReceiveFrame, cases OPCODE_TEXT and OPCODE_BINARY
ReceiveText(s, fin, data) ==
    IF s.receiving = "None"
    THEN IF fin THEN OnTextMessage(s, data)
         ELSE [s EXCEPT !.receiving = "Text", !.messageReassemblyBuffer = data]
    ELSE Close(s, 1002, ReasonLastMessageIncomplete, TRUE)

ReceiveBinary(s, fin, data) ==
    IF s.receiving = "None"
    THEN IF fin THEN OnBinaryMessage(s, data)
         ELSE [s EXCEPT !.receiving = "Binary", !.messageReassemblyBuffer = data]
    ELSE Close(s, 1002, ReasonLastMessageIncomplete, TRUE)

\* A faulty close case: the status code is read low octet first.
ReceiveCloseLowOctetFirst(s, data) ==
    IF Len(data) >= 2
    THEN LET code == data[2] * 256 + data[1]
             reason == SubSeq(data, 3, Len(data))
         IN  IF ~IsValidEncoding(reason)
             THEN Close(s, 1007, ReasonInvalidUtf8Close, TRUE)
             ELSE OnClose(s, code, reason)
    ELSE OnClose(s, 1005, <<>>)

\* Impl::ReceiveFrame, case OPCODE_CLOSE
ReceiveClose(s, data) ==
    IF Len(data) >= 2
    THEN LET code == data[1] * 256 + data[2]
             reason == SubSeq(data, 3, Len(data))
         IN  IF ~IsValidEncoding(reason)
             THEN Close(s, 1007, ReasonInvalidUtf8Close, TRUE)
             ELSE OnClose(s, code, reason)
    ELSE OnClose(s, 1005, <<>>)

\* A faulty ping case: the pong carries no payload.
ReceivePingEmptyPong(s, data) ==
    PushEvent(SendFrame(s, TRUE, OPCODE_PONG, <<>>), "Ping", data, 0)

\* Impl::ReceiveFrame, cases OPCODE_PING and OPCODE_PONG
ReceivePing(s, data) ==
    PushEvent(SendFrame(s, TRUE, OPCODE_PONG, data), "Ping", data, 0)

ReceivePong(s, data) == PushEvent(s, "Pong", data, 0)

\* Impl::ReceiveFrame: the frame is the first headerLength + payloadLength
\* octets of the reassembly buffer.
\* Impl::ReceiveFrame with data the payload it extracts, and whether it
\* gets as far as extracting it.
ReceiveFrameReads(s) ==
    /\ ~s.closeReceived
    /\ FrameReservedBits(s.frameReassemblyBuffer) = 0
    /\ FrameMask(s.frameReassemblyBuffer) <=> s.role = "Server"

ReceiveFrameData(s, data) ==
    LET fb == s.frameReassemblyBuffer
        fin == FrameFin(fb)
        mask == FrameMask(fb)
        opcode == FrameOpcode(fb)
    IN  IF s.closeReceived THEN s
        ELSE IF FrameReservedBits(fb) # 0
        THEN Close(s, 1002, ReasonReservedBits, TRUE)
        ELSE IF mask /\ s.role = "Client"
        THEN Close(s, 1002, ReasonMasked, TRUE)
        ELSE IF ~mask /\ s.role = "Server"
        THEN Close(s, 1002, ReasonUnmasked, TRUE)
        ELSE CASE opcode = OPCODE_CONTINUATION -> ReceiveContinuation(s, fin, data)
               [] opcode = OPCODE_TEXT -> ReceiveText(s, fin, data)
               [] opcode = OPCODE_BINARY -> ReceiveBinary(s, fin, data)
               [] opcode = OPCODE_CLOSE -> ReceiveClose(s, data)
               [] opcode = OPCODE_PING -> ReceivePing(s, data)
               [] opcode = OPCODE_PONG -> ReceivePong(s, data)
               [] OTHER -> Close(s, 1002, ReasonUnknownOpcode, TRUE)

\* A faulty ReceiveFrame: it goes on decoding after a Close event was queued.
ReceiveFrameWhenClosed(s, headerLength, payloadLength) ==
    LET r == ReceiveFrameData([s EXCEPT !.closeReceived = FALSE],
                              FramePayload(s.frameReassemblyBuffer, s.role,
                                           headerLength, payloadLength))
    IN  [r EXCEPT !.closeReceived = @ \/ s.closeReceived]

ReceiveFrame(s, headerLength, payloadLength) ==
    ReceiveFrameData(s, FramePayload(s.frameReassemblyBuffer, s.role,
                                     headerLength, payloadLength))

\* size_t is 64 bits wide.  A 64-bit length field is kept as its 8 octets,
\* most significant first: Huge when it is 2^24 or more (no buffer of the
\* model is that long), otherwise Small is its value.  AddOctets adds n,
\* wrapping around at 2^64 as headerLength + payloadLength does.
IsHuge(octets) == \E i \in 1..5 : octets[i] # 0
Small(octets) == octets[6] * 65536 + octets[7] * 256 + octets[8]

RECURSIVE AddOctets(_, _)
AddOctets(octets, n) ==
    IF octets = <<>> THEN <<>>
    ELSE LET k == Len(octets)
             sum == octets[k] + n
         IN  Append(AddOctets(SubSeq(octets, 1, k - 1), sum \div 256), sum % 256)

\* Impl::ReceiveData, the head of the loop: the header of the frame at the
\* head of the reassembly buffer fb.  complete is FALSE where the loop
\* returns to wait for more octets; frameLength is headerLength +
\* payloadLength as the loop computes it; overrun tells that the payload
\* length is Huge although the wrapped sum passed the size test.
FrameHeader(fb) ==
    IF Len(fb) < 2
    THEN [complete |-> FALSE, headerLength |-> 0, payloadLength |-> 0,
          frameLength |-> 0, overrun |-> FALSE]
    ELSE LET lengthFirstOctet == fb[2] % MASK
             maskOctets == IF (fb[2] \div MASK) % 2 # 0 THEN 4 ELSE 0
         IN  IF lengthFirstOctet = 126
             THEN IF Len(fb) < 4
                  THEN [complete |-> FALSE, headerLength |-> 4, payloadLength |-> 0,
                        frameLength |-> 0, overrun |-> FALSE]
                  ELSE LET headerLength == 4 + maskOctets
                           payloadLength == fb[3] * 256 + fb[4]
                       IN  [complete |-> ~(Len(fb) < headerLength + payloadLength),
                            headerLength |-> headerLength,
                            payloadLength |-> payloadLength,
                            frameLength |-> headerLength + payloadLength,
                            overrun |-> FALSE]
             ELSE IF lengthFirstOctet = 127
             THEN IF Len(fb) < 10
                  THEN [complete |-> FALSE, headerLength |-> 10, payloadLength |-> 0,
                        frameLength |-> 0, overrun |-> FALSE]
                  ELSE LET headerLength == 10 + maskOctets
                           lengthOctets == SubSeq(fb, 3, 10)
                           sum == AddOctets(lengthOctets, headerLength)
                           complete == ~(IsHuge(sum) \/ Len(fb) < Small(sum))
                       IN  [complete |-> complete,
                            headerLength |-> headerLength,
                            payloadLength |-> IF IsHuge(lengthOctets) THEN 0
                                              ELSE Small(lengthOctets),
                            frameLength |-> IF IsHuge(sum) THEN 0 ELSE Small(sum),
                            overrun |-> complete /\ IsHuge(lengthOctets)]
             ELSE LET headerLength == 2 + maskOctets
                      payloadLength == lengthFirstOctet
                  IN  [complete |-> ~(Len(fb) < headerLength + payloadLength),
                       headerLength |-> headerLength,
                       payloadLength |-> payloadLength,
                       frameLength |-> headerLength + payloadLength,
                       overrun |-> FALSE]

\* Impl::ReceiveData, one turn of the loop on a complete frame: ReceiveFrame,
\* then the erase of the frame's octets.
ReceiveDataTurn(s) ==
    LET h == FrameHeader(s.frameReassemblyBuffer)
        s1 == ReceiveFrame(s, h.headerLength, h.payloadLength)
    IN  [s1 EXCEPT !.frameReassemblyBuffer = SubSeq(@, h.frameLength + 1, Len(@))]

\* Impl::ReceiveData up to the loop: the null check, the size cap, the append.
\* The loop is entered exactly when the octets were appended.
ReceiveDataCapped(s, data) ==
    /\ s.maxFrameSize > 0
    /\ Len(s.frameReassemblyBuffer) + Len(data) > s.maxFrameSize

ReceiveDataEnter(s, data) ==
    IF ~s.connection.bound THEN s
    ELSE IF ReceiveDataCapped(s, data) THEN Close(s, 1009, ReasonFrameTooLarge, TRUE)
    ELSE [s EXCEPT !.frameReassemblyBuffer = @ \o data]

\* Impl::ConnectionBroken
ConnectionBroken(s) ==
    IF ~s.connection.bound THEN s
    ELSE Close(s, 1006, ReasonConnectionBroken, TRUE)


(***************************************************************************)
(* The opening handshake.  A key and its answer are the sequences of      *)
(* their character codes.  A request is its method and the headers         *)
(* Connection (its tokens, in lower case), Upgrade, Sec-WebSocket-Version  *)
(* and Sec-WebSocket-Key; a response is its status, reason phrase and the  *)
(* headers Connection, Upgrade, Sec-WebSocket-Accept,                      *)
(* Sec-WebSocket-Extensions and Sec-WebSocket-Protocol (tokens).  An       *)
(* absent header reads as the empty string and as no tokens.               *)
(***************************************************************************)
CURRENTLY_SUPPORTED_WEBSOCKET_VERSION == "13"
REQUIRED_WEBSOCKET_KEY_LENGTH == 16

\* "258EAFA5-E914-47DA-95CA-C5AB0DC85B11"
WEBSOCKET_KEY_SALT ==
    <<50, 53, 56, 69, 65, 70, 65, 53, 45, 69, 57, 49, 52, 45, 52, 55, 68, 65, 45,
      57, 53, 67, 65, 45, 67, 53, 65, 66, 48, 68, 67, 56, 53, 66, 49, 49>>

\* Base64::Encode and Base64::Decode (RFC 4648), on well-formed input.
Base64Alphabet ==
    [i \in 0..63 |-> IF i < 26 THEN 65 + i
                     ELSE IF i < 52 THEN 97 + (i - 26)
                     ELSE IF i < 62 THEN 48 + (i - 52)
                     ELSE IF i = 62 THEN 43 ELSE 47]
Base64Pad == 61
Base64Index(c) == CHOOSE i \in 0..63 : Base64Alphabet[i] = c

RECURSIVE Base64Encode(_)
Base64Encode(octets) ==
    IF octets = <<>> THEN <<>>
    ELSE LET n == Len(octets)
             a == octets[1]
             b == IF n >= 2 THEN octets[2] ELSE 0
             c == IF n >= 3 THEN octets[3] ELSE 0
             group == <<Base64Alphabet[a \div 4],
                        Base64Alphabet[(a % 4) * 16 + b \div 16],
                        IF n >= 2 THEN Base64Alphabet[(b % 16) * 4 + c \div 64] ELSE Base64Pad,
                        IF n >= 3 THEN Base64Alphabet[c % 64] ELSE Base64Pad>>
         IN  group \o Base64Encode(SubSeq(octets, 4, n))

RECURSIVE Base64Decode(_)
Base64Decode(str) ==
    IF Len(str) < 4 THEN <<>>
    ELSE LET i1 == Base64Index(str[1])
             i2 == Base64Index(str[2])
             first == <<i1 * 4 + i2 \div 16>>
         IN  IF str[3] = Base64Pad THEN first
             ELSE LET i3 == Base64Index(str[3])
                      second == <<(i2 % 16) * 16 + i3 \div 4>>
                  IN  IF str[4] = Base64Pad THEN first \o second
                      ELSE first \o second
                               \o <<(i3 % 4) * 64 + Base64Index(str[4])>>
                               \o Base64Decode(SubSeq(str, 5, Len(str)))

\* Hash::StringToBytes< Hash::Sha1 >: a digest that tells any two strings
\* apart.
Sha1(str) == [i \in 1..Len(str) |-> (str[i] * 7 + i) % 256]

\* ComputeKeyAnswer
ComputeKeyAnswer(key) == Base64Encode(Sha1(key \o WEBSOCKET_KEY_SALT))

\* SystemAbstractions::ToLower, on the values of the Upgrade header.
ToLower(str) == IF str \in {"WebSocket", "WEBSOCKET"} THEN "websocket" ELSE str

\* MessageHeaders::HasHeaderToken, MessageHeaders::GetHeaderTokens
HasHeaderToken(tokens, token) == \E i \in 1..Len(tokens) : tokens[i] = token

NoRequest ==
    [method |-> "", connection |-> <<>>, upgrade |-> "", version |-> "", key |-> <<>>]
NoResponse ==
    [statusCode |-> 0, reasonPhrase |-> "", connection |-> <<>>, upgrade |-> "",
     accept |-> <<>>, extensions |-> <<>>, protocol |-> <<>>]

\* No handshake call was made yet.  count numbers the handshake calls, call
\* names the last of them, request, given and trailer are what it was passed
\* (given is the response as the caller passed it), response is the response
\* after the call.
NoHandshake ==
    [count |-> 0, call |-> "none", request |-> NoRequest, trailer |-> "", given |-> NoResponse,
     response |-> NoResponse, returned |-> FALSE]

\* WebSocket::Open, on the engine
Opened(s, role) == [s EXCEPT !.connection.bound = TRUE, !.role = role]

\* WebSocket::StartOpenAsClient: the engine and the request after the call
\* that drew nonce.
StartOpenAsClientKey(s, nonce) == [s EXCEPT !.key = Base64Encode(nonce)]
StartOpenAsClientRequest(request, nonce) ==
    [request EXCEPT !.version = CURRENTLY_SUPPORTED_WEBSOCKET_VERSION,
                    !.key = Base64Encode(nonce),
                    !.upgrade = "websocket",
                    !.connection = Append(@, "upgrade")]

\* A faulty validation: Sec-WebSocket-Accept is not looked at.
FinishOpenAsClientReturnsAnyAccept(s, response) ==
    /\ response.statusCode = 101
    /\ HasHeaderToken(response.connection, "upgrade")
    /\ ToLower(response.upgrade) = "websocket"
    /\ response.extensions = <<>>
    /\ response.protocol = <<>>

\* WebSocket::FinishOpenAsClient: what the call returns.
FinishOpenAsClientReturns(s, response) ==
    /\ response.statusCode = 101
    /\ HasHeaderToken(response.connection, "upgrade")
    /\ ToLower(response.upgrade) = "websocket"
    /\ response.accept = ComputeKeyAnswer(s.key)
    /\ response.extensions = <<>>
    /\ response.protocol = <<>>

FinishOpenAsClientEngine(s, response) ==
    IF FinishOpenAsClientReturns(s, response) THEN Opened(s, "Client") ELSE s

\* WebSocket::OpenAsServer: the checks that return false and leave the
\* response alone, the checks that answer 400, and the engine and the
\* response after the call.
\* A faulty set of checks: the Connection header is not looked at.
OpenAsServerIgnoresConnection(request) ==
    \/ request.method # "GET"
    \/ ToLower(request.upgrade) # "websocket"

OpenAsServerIgnores(request) ==
    \/ request.method # "GET"
    \/ ~HasHeaderToken(request.connection, "upgrade")
    \/ ToLower(request.upgrade) # "websocket"

OpenAsServerRefuses(request, trailer) ==
    \/ request.version # CURRENTLY_SUPPORTED_WEBSOCKET_VERSION
    \/ trailer # ""
    \/ Len(Base64Decode(request.key)) # REQUIRED_WEBSOCKET_KEY_LENGTH

OpenAsServerReturns(request, trailer) ==
    ~OpenAsServerIgnores(request) /\ ~OpenAsServerRefuses(request, trailer)

OpenAsServerEngine(s, request, trailer) ==
    IF OpenAsServerIgnores(request) THEN s
    ELSE IF request.version # CURRENTLY_SUPPORTED_WEBSOCKET_VERSION \/ trailer # "" THEN s
    ELSE LET s1 == [s EXCEPT !.key = request.key]
         IN  IF Len(Base64Decode(s1.key)) # REQUIRED_WEBSOCKET_KEY_LENGTH THEN s1
             ELSE Opened(s1, "Server")

OpenAsServerResponse(request, response, trailer) ==
    IF OpenAsServerIgnores(request) THEN response
    ELSE IF OpenAsServerRefuses(request, trailer)
    THEN [response EXCEPT !.statusCode = 400, !.reasonPhrase = "Bad Request"]
    ELSE [response EXCEPT !.statusCode = 101,
                          !.reasonPhrase = "Switching Protocols",
                          !.connection = Append(@, "upgrade"),
                          !.upgrade = "websocket",
                          !.accept = ComputeKeyAnswer(request.key)]


(***************************************************************************)
(* Threads.                                                                *)
(*                                                                         *)
(* "net" is the transport's thread: it runs the two delegates Open         *)
(* registers.  "app" and "app2" are application threads: they call the     *)
(* public methods.  A delegate of the application runs on the thread that walks   *)
(* the event queue and may call the public methods from there.             *)
(*                                                                         *)
(* pc[t] is where thread t stands:                                         *)
(*   "idle"               outside the engine                               *)
(*   "ReceiveData"        in the loop of Impl::ReceiveData, holding mutex  *)
(*   "ProcessEventQueue"  about to call Impl::ProcessEventQueue            *)
(*   "walk"               in the while loop of ProcessEventQueue           *)
(*   "delegate"           inside a delegate called from that loop          *)
(* stack[t] holds one record per running ProcessEventQueue of thread t,    *)
(* the innermost last: its offloadedEvents and its delegatesCopy.  mutex   *)
(* is the thread that holds Impl::mutex across steps, or "none"; a method  *)
(* that locks, works and unlocks without calling out is one step.          *)
(*                                                                         *)
(* History: delivered lists the events given to a delegate, in the order   *)
(* of the calls; dropped those popped with no delegate to call; taken      *)
(* those swapped out of the event queue.  calls, chunks and brokenCalls    *)
(* count the calls of the public methods and of the two delegates of the   *)
(* transport.  frames lists the frames Impl::ReceiveData handed to         *)
(* Impl::ReceiveFrame: the octets of each, the number of the chunk whose   *)
(* ReceiveData call handed it over, and the decoder's state before and     *)
(* after it.                                                               *)
(***************************************************************************)
Threads == {"net", "app", "app2"}
AppThreads == {"app", "app2"}

\* The deepest nesting of ProcessEventQueue calls on one thread.
MaxDepth == 2

\* The keys the random generator may yield.  Only a client reads it.
MaskKeys == {<<55, 250, 33, 61>>, <<1, 2, 3, 4>>}
KeysFor(role) == IF role = "Client" THEN MaskKeys ELSE {NullMaskingKey}

\* rng.Generate(maskingKey, sizeof(maskingKey)) of the running call yields key.
Entropy(s, key) == [s EXCEPT !.rng = key]

Top(t) == stack[t][Len(stack[t])]
SetTop(t, frame) == [stack EXCEPT ![t] = [@ EXCEPT ![Len(@)] = frame]]
Pop(t) == SubSeq(stack[t], 1, Len(stack[t]) - 1)

\* Where thread t stands once the call it is in returns.
Outside(stk) == IF stk = <<>> THEN "idle" ELSE "delegate"

\* Where thread t stands once its ProcessEventQueue returns: back in the
\* loop of Impl::ReceiveData when the transport called it from inside that
\* loop, which holds the mutex.
Resumes(t, stk) == IF mutex = t THEN "ReceiveData" ELSE Outside(stk)

\* Thread t may call a public method: from outside the engine, or from
\* inside a delegate.
CanCall(t) ==
    \/ t \in AppThreads /\ pc[t] = "idle"
    \/ pc[t] = "delegate" /\ Len(stack[t]) < MaxDepth

Init ==
    /\ impl \in {NewImpl(r) : r \in Role}
    /\ mutex = "none"
    /\ pc = [t \in Threads |-> "idle"]
    /\ stack = [t \in Threads |-> <<>>]
    /\ delivered = <<>>
    /\ dropped = <<>>
    /\ taken = <<>>
    /\ calls = 0
    /\ chunks = 0
    /\ brokenCalls = 0
    /\ frames = <<>>
    /\ http = NoHandshake

\* WebSocket::Open (from FinishOpenAsClient or OpenAsServer)
Open(role) ==
    /\ pc["app"] = "idle"
    /\ ~impl.connection.bound
    /\ impl' = [impl EXCEPT !.connection.bound = TRUE, !.role = role]
    /\ UNCHANGED <<http, mutex, pc, stack, delivered, dropped, taken, calls, chunks,
                 brokenCalls, frames>>

\* A handshake call of the application: it gave the engine s and left the
\* handshake h.
Shaken(s, h) ==
    /\ pc["app"] = "idle"
    /\ mutex = "none"
    /\ impl' = s
    /\ http' = h
    /\ calls' = calls + 1
    /\ UNCHANGED <<mutex, pc, stack, delivered, dropped, taken, chunks, brokenCalls, frames>>

\* WebSocket::StartOpenAsClient
StartOpenAsClient(request, nonce) ==
    Shaken(StartOpenAsClientKey(impl, nonce),
           [count |-> http.count + 1, call |-> "StartOpenAsClient",
            request |-> StartOpenAsClientRequest(request, nonce),
            trailer |-> "", given |-> http.response, response |-> http.response,
            returned |-> FALSE])

\* WebSocket::FinishOpenAsClient
FinishOpenAsClient(response) ==
    Shaken(FinishOpenAsClientEngine(impl, response),
           [count |-> http.count + 1, call |-> "FinishOpenAsClient", request |-> http.request, trailer |-> "",
            given |-> response, response |-> response,
            returned |-> FinishOpenAsClientReturns(impl, response)])

\* WebSocket::OpenAsServer
OpenAsServer(request, response, trailer) ==
    Shaken(OpenAsServerEngine(impl, request, trailer),
           [count |-> http.count + 1, call |-> "OpenAsServer", request |-> request, trailer |-> trailer,
            given |-> response,
            response |-> OpenAsServerResponse(request, response, trailer),
            returned |-> OpenAsServerReturns(request, trailer)])

\* WebSocket::Configure
Configure(t, maxFrameSize) ==
    /\ CanCall(t)
    /\ mutex = "none"
    /\ impl' = [impl EXCEPT !.maxFrameSize = maxFrameSize]
    /\ calls' = calls + 1
    /\ UNCHANGED <<http, mutex, pc, stack, delivered, dropped, taken, chunks, brokenCalls, frames>>

\* A public method's locked part gave the engine s; with returned TRUE the
\* method returned early, otherwise it goes on to ProcessEventQueue.
Called(t, s, returned) ==
    /\ impl' = s
    /\ pc' = IF returned THEN pc ELSE [pc EXCEPT ![t] = "ProcessEventQueue"]
    /\ calls' = calls + 1
    /\ UNCHANGED <<http, mutex, stack, delivered, dropped, taken, chunks, brokenCalls, frames>>

\* WebSocket::Close
WebSocket_Close(t, code, reason, key) ==
    /\ CanCall(t)
    /\ mutex = "none"
    /\ IF ~impl.connection.bound
       THEN Called(t, impl, TRUE)
       ELSE Called(t, Close(Entropy(impl, key), code, reason, FALSE), FALSE)

\* A faulty Ping: it does not look at closeSent.
WebSocket_PingWhenClosed(t, data, key) ==
    /\ CanCall(t)
    /\ mutex = "none"
    /\ IF \/ ~impl.connection.bound
          \/ Len(data) > MAX_CONTROL_FRAME_DATA_LENGTH
       THEN Called(t, impl, TRUE)
       ELSE Called(t, SendFrame(Entropy(impl, key), TRUE, OPCODE_PING, data), FALSE)

\* WebSocket::Ping
WebSocket_Ping(t, data, key) ==
    /\ CanCall(t)
    /\ mutex = "none"
    /\ IF \/ ~impl.connection.bound
          \/ impl.closeSent
          \/ Len(data) > MAX_CONTROL_FRAME_DATA_LENGTH
       THEN Called(t, impl, TRUE)
       ELSE Called(t, SendFrame(Entropy(impl, key), TRUE, OPCODE_PING, data), FALSE)

\* WebSocket::Pong
WebSocket_Pong(t, data, key) ==
    /\ CanCall(t)
    /\ mutex = "none"
    /\ IF \/ ~impl.connection.bound
          \/ impl.closeSent
          \/ Len(data) > MAX_CONTROL_FRAME_DATA_LENGTH
       THEN Called(t, impl, TRUE)
       ELSE Called(t, SendFrame(Entropy(impl, key), TRUE, OPCODE_PONG, data), FALSE)

\* WebSocket::SendText, the locked part
SendTextUnchecked(s, data, lastFragment) ==
    LET opcode == IF s.sending = "Text" THEN OPCODE_CONTINUATION ELSE OPCODE_TEXT
    IN  [SendFrame(s, lastFragment, opcode, data)
            EXCEPT !.sending = IF lastFragment THEN "None" ELSE "Text"]

\* A faulty test: SendText goes ahead while a binary message is being sent.
SendTextRejectedWhenClosed(s) ==
    ~s.connection.bound \/ s.closeSent

\* WebSocket::SendText, the early returns
SendTextRejected(s) ==
    ~s.connection.bound \/ s.closeSent \/ s.sending = "Binary"

SendText(s, data, lastFragment) ==
    IF SendTextRejected(s) THEN s ELSE SendTextUnchecked(s, data, lastFragment)

\* WebSocket::SendBinary, the locked part
SendBinaryRejected(s) ==
    ~s.connection.bound \/ s.closeSent \/ s.sending = "Text"

SendBinary(s, data, lastFragment) ==
    IF SendBinaryRejected(s) THEN s
    ELSE LET opcode == IF s.sending = "Binary" THEN OPCODE_CONTINUATION ELSE OPCODE_BINARY
         IN  [SendFrame(s, lastFragment, opcode, data)
                 EXCEPT !.sending = IF lastFragment THEN "None" ELSE "Binary"]

\* WebSocket::SendText
WebSocket_SendText(t, data, lastFragment, key) ==
    /\ CanCall(t)
    /\ mutex = "none"
    /\ IF SendTextRejected(impl)
       THEN Called(t, impl, TRUE)
       ELSE Called(t, SendText(Entropy(impl, key), data, lastFragment), FALSE)

\* WebSocket::SendBinary
WebSocket_SendBinary(t, data, lastFragment, key) ==
    /\ CanCall(t)
    /\ mutex = "none"
    /\ IF SendBinaryRejected(impl)
       THEN Called(t, impl, TRUE)
       ELSE Called(t, SendBinary(Entropy(impl, key), data, lastFragment), FALSE)

\* WebSocket::SetDelegates; d is the set of the event types whose delegate
\* is not null.
WebSocket_SetDelegates(t, d) ==
    /\ CanCall(t)
    /\ mutex = "none"
    /\ Called(t, [impl EXCEPT !.delegates = d, !.delegatesSet = TRUE], FALSE)

\* The data received delegate of WebSocket::Open, up to the loop of
\* Impl::ReceiveData.
DataReceived(data, key) ==
    /\ pc["net"] = "idle"
    /\ mutex = "none"
    /\ impl.connection.bound
    /\ impl' = ReceiveDataEnter(Entropy(impl, key), data)
    /\ IF ReceiveDataCapped(impl, data)
       THEN /\ pc' = [pc EXCEPT !["net"] = "ProcessEventQueue"]
            /\ UNCHANGED mutex
       ELSE /\ pc' = [pc EXCEPT !["net"] = "ReceiveData"]
            /\ mutex' = "net"
    /\ chunks' = chunks + 1
    /\ UNCHANGED <<http, stack, delivered, dropped, taken, calls, brokenCalls, frames>>

\* The complete frame at the head of the reassembly buffer, and what the
\* history keeps of the engine around a call of ReceiveFrame.
HeadFrame(s) ==
    SubSeq(s.frameReassemblyBuffer, 1, FrameHeader(s.frameReassemblyBuffer).frameLength)

Snapshot(s) ==
    [ closeSent |-> s.closeSent,
      closeReceived |-> s.closeReceived,
      receiving |-> s.receiving,
      messageReassemblyBuffer |-> s.messageReassemblyBuffer,
      pushed |-> s.pushed ]

\* One turn of the loop of Impl::ReceiveData on a complete frame.
ReceiveDataFrame(key) ==
    /\ pc["net"] = "ReceiveData"
    /\ FrameHeader(impl.frameReassemblyBuffer).complete
    /\ ~FrameHeader(impl.frameReassemblyBuffer).overrun
    /\ impl' = ReceiveDataTurn(Entropy(impl, key))
    /\ frames' = Append(frames, [octets |-> HeadFrame(impl),
                                 chunk |-> chunks,
                                 before |-> Snapshot(impl),
                                 after |-> Snapshot(impl')])
    /\ UNCHANGED <<http, mutex, pc, stack, delivered, dropped, taken, calls, chunks, brokenCalls>>

\* The loop of Impl::ReceiveData run to its return, where no turn overruns
\* the buffer; at a turn that does, the engine as that turn finds it.
RECURSIVE ReceiveDataLoop(_, _)
ReceiveDataLoop(s, key) ==
    IF /\ FrameHeader(s.frameReassemblyBuffer).complete
       /\ ~FrameHeader(s.frameReassemblyBuffer).overrun
    THEN ReceiveDataLoop(ReceiveDataTurn(Entropy(s, key)), key)
    ELSE s

\* What the extraction of a payload that lies outside the reassembly buffer
\* may yield where it yields octets at all.
OverrunReads == { <<>>, <<0>> }

\* One turn of the loop of Impl::ReceiveData on a frame whose 64-bit payload
\* length made headerLength + payloadLength wrap around to no more than the
\* size of the buffer.  ReceiveFrame is called.  When it returns before the
\* extraction (closeReceived, reserved bits, wrong masking) the turn ends with
\* the erase of the wrapped number of octets.  Otherwise a server resizes
\* data to the payload length, which throws: the call is left by the
\* exception with the frame still buffered, or the process ends where
\* nothing catches it.  A client assigns from an iterator range that ends
\* before it begins, which is undefined: the same two outcomes, or some
\* octets are taken for the payload and the turn goes on.  The history
\* keeps the octets the turn erased.
ReceiveDataFrameOverrun(key) ==
    /\ pc["net"] = "ReceiveData"
    /\ FrameHeader(impl.frameReassemblyBuffer).complete
    /\ FrameHeader(impl.frameReassemblyBuffer).overrun
    /\ LET s == Entropy(impl, key)
           erased == FrameHeader(impl.frameReassemblyBuffer).frameLength
           Turn(data) ==
               [ReceiveFrameData(s, data) EXCEPT
                    !.frameReassemblyBuffer = SubSeq(@, erased + 1, Len(@))]
       IN  IF ~ReceiveFrameReads(s)
           THEN /\ impl' = Turn(<<>>)
                /\ UNCHANGED <<mutex, pc>>
           ELSE \/ /\ s.role = "Client"
                   /\ \E data \in OverrunReads : impl' = Turn(data)
                   /\ UNCHANGED <<mutex, pc>>
                \/ /\ impl' = s
                   /\ mutex' = "none"
                   /\ pc' = [pc EXCEPT !["net"] = "idle"]
                \/ /\ impl' = s
                   /\ pc' = [t \in Threads |-> "ended"]
                   /\ UNCHANGED mutex
    /\ frames' = Append(frames, [octets |-> SubSeq(impl.frameReassemblyBuffer, 1,
                                     Len(impl.frameReassemblyBuffer)
                                         - Len(impl'.frameReassemblyBuffer)),
                                 chunk |-> chunks,
                                 before |-> Snapshot(impl),
                                 after |-> Snapshot(impl')])
    /\ UNCHANGED <<http, stack, delivered, dropped, taken, calls, chunks, brokenCalls>>

\* The loop of Impl::ReceiveData returns: no complete frame is buffered.
ReceiveDataReturn ==
    /\ pc["net"] = "ReceiveData"
    /\ ~FrameHeader(impl.frameReassemblyBuffer).complete
    /\ mutex' = "none"
    /\ pc' = [pc EXCEPT !["net"] = "ProcessEventQueue"]
    /\ UNCHANGED <<http, impl, stack, delivered, dropped, taken, calls, chunks, brokenCalls,
                 frames>>

\* The broken delegate of WebSocket::Open.
Broken ==
    /\ pc["net"] = "idle"
    /\ mutex = "none"
    /\ impl.connection.bound
    /\ impl' = ConnectionBroken(impl)
    /\ pc' = [pc EXCEPT !["net"] = "ProcessEventQueue"]
    /\ brokenCalls' = brokenCalls + 1
    /\ UNCHANGED <<http, mutex, stack, delivered, dropped, taken, calls, chunks, frames>>

\* A faulty test: the queue is swapped out before any delegate is installed.
OffloadsAlways(s) == TRUE

\* Impl::ProcessEventQueue, the locked part: whether the queue is swapped out.
Offloads(s) == s.delegatesSet

\* A faulty ProcessEventQueue: it does not wait for the mutex.
ProcessEventQueueUnlocked(t) ==
    /\ pc[t] = "ProcessEventQueue"
    /\ IF ~Offloads(impl)
       THEN /\ pc' = [pc EXCEPT ![t] = Outside(stack[t])]
            /\ UNCHANGED <<impl, stack, taken>>
       ELSE /\ stack' = [stack EXCEPT ![t] =
                            Append(@, [offloadedEvents |-> impl.eventQueue,
                                       delegatesCopy |-> impl.delegates])]
            /\ impl' = [impl EXCEPT !.eventQueue = <<>>]
            /\ taken' = taken \o impl.eventQueue
            /\ pc' = [pc EXCEPT ![t] = "walk"]
    /\ UNCHANGED <<http, mutex, delivered, dropped, calls, chunks, brokenCalls, frames>>

ProcessEventQueue(t) ==
    /\ pc[t] = "ProcessEventQueue"
    /\ mutex = "none"
    /\ IF ~Offloads(impl)
       THEN /\ pc' = [pc EXCEPT ![t] = Outside(stack[t])]
            /\ UNCHANGED <<impl, stack, taken>>
       ELSE /\ stack' = [stack EXCEPT ![t] =
                            Append(@, [offloadedEvents |-> impl.eventQueue,
                                       delegatesCopy |-> impl.delegates])]
            /\ impl' = [impl EXCEPT !.eventQueue = <<>>]
            /\ taken' = taken \o impl.eventQueue
            /\ pc' = [pc EXCEPT ![t] = "walk"]
    /\ UNCHANGED <<http, mutex, delivered, dropped, calls, chunks, brokenCalls, frames>>

\* One turn of the loop of Impl::ReceiveData on a complete frame for which
\* ReceiveFrame calls connection->Break, with a transport that calls the
\* broken delegate of WebSocket::Open before Break returns:
\* Impl::ConnectionBroken and the locked part of Impl::ProcessEventQueue run
\* on the transport thread inside the turn, and ReceiveData still holds the
\* mutex when ProcessEventQueue has unlocked its own hold.  What the turn does
\* after Break, erasing the frame from the buffer, touches nothing the two
\* read.  The public methods wait for mutex to be "none", so a delegate run
\* this way calls none of them.
ReceiveDataFrameBreaking(key) ==
    /\ pc["net"] = "ReceiveData"
    /\ FrameHeader(impl.frameReassemblyBuffer).complete
    /\ ~FrameHeader(impl.frameReassemblyBuffer).overrun
    /\ LET turned == ReceiveDataTurn(Entropy(impl, key))
           s == ConnectionBroken(turned)
       IN  /\ Len(turned.connection.breaks) > Len(impl.connection.breaks)
           /\ frames' = Append(frames, [octets |-> HeadFrame(impl),
                                        chunk |-> chunks,
                                        before |-> Snapshot(impl),
                                        after |-> Snapshot(s)])
           /\ IF ~Offloads(s)
              THEN /\ impl' = s
                   /\ UNCHANGED <<pc, stack, taken>>
              ELSE /\ stack' = [stack EXCEPT !["net"] =
                                   Append(@, [offloadedEvents |-> s.eventQueue,
                                              delegatesCopy |-> s.delegates])]
                   /\ impl' = [s EXCEPT !.eventQueue = <<>>]
                   /\ taken' = taken \o s.eventQueue
                   /\ pc' = [pc EXCEPT !["net"] = "walk"]
    /\ brokenCalls' = brokenCalls + 1
    /\ UNCHANGED <<http, mutex, delivered, dropped, calls, chunks>>

\* Impl::ProcessEventQueue, the loop: the front event goes to the delegate of
\* its type, or is popped when that delegate is null.
Dispatch(t) ==
    /\ pc[t] = "walk"
    /\ Top(t).offloadedEvents # <<>>
    /\ LET event == Head(Top(t).offloadedEvents)
       IN  IF event.type \in Top(t).delegatesCopy
           THEN /\ delivered' = Append(delivered, event)
                /\ pc' = [pc EXCEPT ![t] = "delegate"]
                /\ UNCHANGED <<stack, dropped>>
           ELSE /\ dropped' = Append(dropped, [event |-> event,
                                               delegatesCopy |-> Top(t).delegatesCopy])
                /\ stack' = SetTop(t, [Top(t) EXCEPT !.offloadedEvents = Tail(@)])
                /\ UNCHANGED <<pc, delivered>>
    /\ UNCHANGED <<http, impl, mutex, taken, calls, chunks, brokenCalls, frames>>

\* The delegate returns; offloadedEvents.pop().
DelegateReturn(t) ==
    /\ pc[t] = "delegate"
    /\ stack' = SetTop(t, [Top(t) EXCEPT !.offloadedEvents = Tail(@)])
    /\ pc' = [pc EXCEPT ![t] = "walk"]
    /\ UNCHANGED <<http, impl, mutex, delivered, dropped, taken, calls, chunks, brokenCalls,
                 frames>>

\* Impl::ProcessEventQueue returns: offloadedEvents is empty.
ProcessEventQueueReturn(t) ==
    /\ pc[t] = "walk"
    /\ Top(t).offloadedEvents = <<>>
    /\ stack' = [stack EXCEPT ![t] = Pop(t)]
    /\ pc' = [pc EXCEPT ![t] = Resumes(t, Pop(t))]
    /\ UNCHANGED <<http, impl, mutex, delivered, dropped, taken, calls, chunks, brokenCalls,
                 frames>>


(***************************************************************************)
(* Inputs.                                                                 *)
(***************************************************************************)
\* The octets of a frame as the peer writes it.
InFrame(fin, rsv, opcode, masked, key, payload) ==
    <<fin * FIN + rsv * 16 + opcode>>
        \o LengthOctets(Len(payload), IF masked THEN MASK ELSE 0)
        \o (IF masked THEN key \o MaskPayload(payload, key) ELSE payload)

PeerKey == <<55, 250, 33, 61>>

\* A frame masked as an engine of the given role expects it.
Frame(role, fin, opcode, payload) ==
    InFrame(fin, 0, opcode, role = "Server", PeerKey, payload)

TextFrame(role) == Frame(role, 1, OPCODE_TEXT, <<72>>)
TextStart(role) == Frame(role, 0, OPCODE_TEXT, <<72>>)
BinaryFrame(role) == Frame(role, 1, OPCODE_BINARY, <<255>>)
BinaryStart(role) == Frame(role, 0, OPCODE_BINARY, <<1>>)
ContinuationMore(role) == Frame(role, 0, OPCODE_CONTINUATION, <<195>>)
ContinuationEnd(role) == Frame(role, 1, OPCODE_CONTINUATION, <<169>>)
ContinuationParen(role) == Frame(role, 1, OPCODE_CONTINUATION, <<40>>)
InvalidTextFrame(role) == Frame(role, 1, OPCODE_TEXT, <<195, 40>>)
PingFrame(role) == Frame(role, 1, OPCODE_PING, <<7>>)
PongFrame(role) == Frame(role, 1, OPCODE_PONG, <<>>)
CloseEmpty(role) == Frame(role, 1, OPCODE_CLOSE, <<>>)
CloseOneOctet(role) == Frame(role, 1, OPCODE_CLOSE, <<3>>)
CloseNormal(role) == Frame(role, 1, OPCODE_CLOSE, <<3, 232>>)
CloseBadReason(role) == Frame(role, 1, OPCODE_CLOSE, <<3, 233, 255>>)
ReservedBitsFrame(role) == InFrame(1, 4, OPCODE_TEXT, role = "Server", PeerKey, <<72>>)
WrongMaskFrame(role) == InFrame(1, 0, OPCODE_TEXT, role # "Server", PeerKey, <<72>>)
UnknownOpcodeFrame(role) == Frame(role, 1, 3, <<>>)

DelegateSets == {EventType, EventType \ {"Ping"}}

(***************************************************************************)
(* Spec: the dispatcher.  The transport thread and an application thread,  *)
(* delegates that call back into the engine.                               *)
(***************************************************************************)
MaxCalls == 2
MaxChunks == 2
MaxBroken == 1

DispatchChunks(role) ==
    { TextFrame(role), PingFrame(role), CloseNormal(role),
      TextFrame(role) \o BinaryFrame(role) }

Next ==
    \/ \E role \in Role : Open(role)
    \/ calls < MaxCalls /\ \E t \in {"net", "app"}, d \in DelegateSets :
           WebSocket_SetDelegates(t, d)
    \/ calls < MaxCalls /\ \E t \in {"net", "app"}, code \in {1000, 1006},
                               key \in {PeerKey} :
           WebSocket_Close(t, code, <<>>, key)
    \/ chunks < MaxChunks /\ \E data \in DispatchChunks(impl.role),
                                key \in {PeerKey} :
           DataReceived(data, key)
    \/ \E key \in {PeerKey} : ReceiveDataFrame(key)
    \/ ReceiveDataReturn
    \/ brokenCalls < MaxBroken /\ Broken
    \/ \E t \in Threads : ProcessEventQueue(t)
    \/ \E t \in Threads : Dispatch(t)
    \/ \E t \in Threads : DelegateReturn(t)
    \/ \E t \in Threads : ProcessEventQueueReturn(t)

Spec == Init /\ [][Next]_vars


\* Every event pushed so far, in the order of the pushes.
AllPushed == taken \o impl.eventQueue

\* C1: once a Close event has been given to the close delegate, no Text,
\* Binary, Ping or Pong event is given to a delegate: in the order of the
\* calls of the delegates, nothing but Close events follows a Close event.
C1_NothingDeliveredAfterClose ==
    \A i \in 1..Len(delivered) : \A j \in 1..Len(delivered) :
        (i < j /\ delivered[i].type = "Close") => delivered[j].type = "Close"

\* C2: the delegates are called in the order in which the events were
\* pushed onto the event queue, whichever threads run ProcessEventQueue.
C2_DeliveredInPushOrder ==
    \A i \in 1..Len(delivered) : \A j \in 1..Len(delivered) :
        i < j => delivered[i].seq < delivered[j].seq


(***************************************************************************)
(* SpecInstall: delegates installed late.  Events arrive before and after  *)
(* SetDelegates, which the application calls from its own thread or from   *)
(* a delegate.                                                             *)
(***************************************************************************)
MaxInstallCalls == 2
MaxInstallChunks == 2

InstallChunks(role) ==
    { TextFrame(role), PingFrame(role), TextFrame(role) \o BinaryFrame(role) }

NextInstall ==
    \/ \E role \in Role : Open(role)
    \/ calls < MaxInstallCalls /\ \E t \in {"net", "app"}, d \in DelegateSets :
           WebSocket_SetDelegates(t, d)
    \/ chunks < MaxInstallChunks /\ \E data \in InstallChunks(impl.role) :
           DataReceived(data, PeerKey)
    \/ ReceiveDataFrame(PeerKey)
    \/ ReceiveDataReturn
    \/ \E t \in Threads : ProcessEventQueue(t)
    \/ \E t \in Threads : Dispatch(t)
    \/ \E t \in Threads : DelegateReturn(t)
    \/ \E t \in Threads : ProcessEventQueueReturn(t)

SpecInstall == Init /\ [][NextInstall]_vars

\* The delegate for the front event of the f-th ProcessEventQueue of thread t
\* is running: the event is in delivered and not yet popped.
InDelegate(t, f) ==
    f < Len(stack[t]) \/ pc[t] \in {"delegate", "ProcessEventQueue"}

\* The events a thread took and has not yet given to a delegate or popped:
\* those of its local FIFOs, but for the front one where its delegate runs.
Waiting(t, f) ==
    IF InDelegate(t, f) /\ stack[t][f].offloadedEvents # <<>>
    THEN Tail(stack[t][f].offloadedEvents)
    ELSE stack[t][f].offloadedEvents

Positions == {<<t, f>> \in Threads \X (1..MaxDepth + 1) : f <= Len(stack[t])}

RECURSIVE SumWaiting(_)
SumWaiting(ps) ==
    IF ps = {} THEN 0
    ELSE LET p == CHOOSE q \in ps : TRUE
         IN  Len(Waiting(p[1], p[2])) + SumWaiting(ps \ {p})

\* The events taken from the queue are accounted for exactly once: given to
\* a delegate, popped with no delegate to call, or waiting.
AccountedOnce ==
    /\ Len(delivered) + Len(dropped) + SumWaiting(Positions) = Len(taken)
    /\ {delivered[i].seq : i \in 1..Len(delivered)}
         \cup {dropped[i].event.seq : i \in 1..Len(dropped)}
         \cup UNION {{Waiting(p[1], p[2])[i].seq : i \in 1..Len(Waiting(p[1], p[2]))} :
                        p \in Positions}
       = 1..Len(taken)

C3_Accounted ==
    /\ [i \in 1..Len(AllPushed) |-> AllPushed[i].seq] = [i \in 1..impl.pushed |-> i]
    /\ ~impl.delegatesSet => taken = <<>>
    /\ AccountedOnce
    /\ \A i \in 1..Len(dropped) : dropped[i].event.type \notin dropped[i].delegatesCopy
    /\ \A t \in Threads : \A f \in 1..Len(stack[t]) :
           \A i \in 1..Len(stack[t][f].offloadedEvents) - 1 :
               stack[t][f].offloadedEvents[i].seq < stack[t][f].offloadedEvents[i + 1].seq

C3_Step ==
    \A t \in Threads :
        ProcessEventQueue(t) =>
            IF impl.delegatesSet
            THEN /\ impl'.eventQueue = <<>>
                 /\ stack'[t][Len(stack'[t])].offloadedEvents = impl.eventQueue
            ELSE impl'.eventQueue = impl.eventQueue /\ stack' = stack

\* C3: late installation of the delegates loses and duplicates no event.
\* While no delegates are installed a ProcessEventQueue call leaves the event
\* queue as it is; once they are, a call takes the whole queue; every event
\* ever pushed is in the queue or was taken from it, once and in the order of
\* the pushes; and every event taken was given to the delegate of its type,
\* or popped because that delegate was null, or waits in the local FIFO of
\* the thread that took it, exactly once.
C3_LateInstallation == []C3_Accounted /\ [][C3_Step]_vars

\* An event pushed before any SetDelegates was given to its delegate, and
\* another one was popped for want of a delegate.
C3_Witness ==
    /\ \E i \in 1..Len(delivered) : delivered[i].early
    /\ \E i \in 1..Len(dropped) : dropped[i].event.early


(***************************************************************************)
(* SpecClose: the close state machine and the decoder's failure closes.    *)
(* No delegates are installed, so every event stays on the event queue.    *)
(***************************************************************************)
MaxCloseCalls == 2
MaxCloseChunks == 1

MaxFrameSizes == {0, 4}

CloseChunks(role) ==
    { CloseEmpty(role), CloseNormal(role), CloseBadReason(role),
      TextFrame(role), BinaryFrame(role), InvalidTextFrame(role), TextStart(role),
      ContinuationEnd(role), ReservedBitsFrame(role), WrongMaskFrame(role),
      UnknownOpcodeFrame(role),
      TextStart(role) \o TextFrame(role),
      CloseNormal(role) \o TextFrame(role),
      SubSeq(CloseNormal(role), 1, 2),
      SubSeq(CloseNormal(role), 3, Len(CloseNormal(role))) }

NextClose ==
    \/ \E role \in Role : Open(role)
    \/ calls < MaxCloseCalls /\ \E m \in MaxFrameSizes : Configure("app", m)
    \/ calls < MaxCloseCalls /\ \E code \in {1000, 1006} :
           WebSocket_Close("app", code, <<>>, PeerKey)
    \/ chunks < MaxCloseChunks /\ \E data \in CloseChunks(impl.role) :
           DataReceived(data, PeerKey)
    \/ ReceiveDataFrame(PeerKey)
    \/ ReceiveDataReturn
    \/ brokenCalls < MaxBroken /\ Broken
    \/ \E t \in {"net", "app"} : ProcessEventQueue(t)

SpecClose == Init /\ [][NextClose]_vars

\* What a step did, read off the engine before and after it.
Sent == impl.connection.sent
Breaks == impl.connection.breaks
Last(seq) == seq[Len(seq)]
FrameStep == Len(frames') = Len(frames) + 1
WroteNothing == impl'.connection.sent = Sent
WroteOneFrame == Len(impl'.connection.sent) = Len(Sent) + 1
QueuedNothing == impl'.pushed = impl.pushed
QueuedOneEvent == impl'.pushed = impl.pushed + 1
BrokeNot == impl'.connection.breaks = Breaks
Broke(clean) == impl'.connection.breaks = Append(Breaks, clean)

\* The payload of a frame the engine wrote with a payload under 126 octets.
WrittenPayload(frame) ==
    IF (frame[2] \div MASK) % 2 # 0
    THEN MaskPayload(SubSeq(frame, 7, Len(frame)), SubSeq(frame, 3, 6))
    ELSE SubSeq(frame, 3, Len(frame))

\* The step wrote one frame: a close frame with the given status code.
WroteClose(code) ==
    /\ WroteOneFrame
    /\ LET frame == Last(impl'.connection.sent)
       IN  /\ frame[1] = FIN + OPCODE_CLOSE
           /\ Len(WrittenPayload(frame)) >= 2
           /\ WrittenPayload(frame)[1] * 256 + WrittenPayload(frame)[2] = code

\* The step pushed one event: a Close event with the given status code.
QueuedClose(code) ==
    /\ QueuedOneEvent
    /\ Last(impl'.eventQueue).type = "Close"
    /\ Last(impl'.eventQueue).closeCode = code

\* The frame the step hands to ReceiveFrame, as the peer meant it.
HeadHeader == FrameHeader(impl.frameReassemblyBuffer)
HeadOpcode == FrameOpcode(impl.frameReassemblyBuffer)
HeadFin == FrameFin(impl.frameReassemblyBuffer)
HeadMaskedRight == FrameMask(impl.frameReassemblyBuffer) = (impl.role = "Server")
HeadSound == FrameReservedBits(impl.frameReassemblyBuffer) = 0 /\ HeadMaskedRight
HeadPayload ==
    FramePayload(impl.frameReassemblyBuffer, impl.role,
                 HeadHeader.headerLength, HeadHeader.payloadLength)

\* The status code of a received close payload.
PeerCode(payload) ==
    IF Len(payload) >= 2 THEN payload[1] * 256 + payload[2] ELSE 1005

\* The peer's close frame arrives while the engine waits for it.
PeerAnswersClose ==
    /\ FrameStep
    /\ impl.closeSent /\ ~impl.closeReceived
    /\ HeadSound /\ HeadOpcode = OPCODE_CLOSE

ReasonAccepted(payload) ==
    Len(payload) < 2 \/ IsValidEncoding(SubSeq(payload, 3, Len(payload)))

C19_PeerCloseCompletes ==
    [][PeerAnswersClose =>
          /\ impl'.closeReceived
          /\ QueuedOneEvent
          /\ Last(impl'.eventQueue).type = "Close"
          /\ Len(impl'.connection.breaks) = Len(Breaks) + 1]_vars

\* C5: whenever closeSent and closeReceived are both true, Break has been
\* called exactly once.
C5_BrokenOnce ==
    (impl.closeSent /\ impl.closeReceived) => Len(Breaks) = 1

\* The peer closed first and the application answered with Close: both
\* flags are set and the one Break is the clean one.
C5_Witness ==
    /\ impl.closeSent /\ impl.closeReceived
    /\ Breaks = <<TRUE>>

NoCloseQueued == \A i \in 1..Len(AllPushed) : AllPushed[i].type # "Close"

\* C6: when the transport reports the connection broken while a transport
\* is bound and no Close event was queued before, a Close event with code
\* 1006 is queued and no frame is written; and no Close call with code 1006
\* writes a frame.
C6_BrokenQueuesClose ==
    [][/\ (brokenCalls' = brokenCalls + 1 /\ impl.connection.bound /\ NoCloseQueued)
            => (QueuedClose(1006) /\ WroteNothing)
       /\ (\E t \in Threads : WebSocket_Close(t, 1006, <<>>, PeerKey))
            => WroteNothing]_vars

\* The protocol error in the frame at the head of the reassembly buffer, by
\* its close code; 0 when the frame is in order.
HeadError ==
    LET data == HeadPayload
    IN  IF ~HeadSound THEN 1002
        ELSE IF HeadOpcode \notin {OPCODE_CONTINUATION, OPCODE_TEXT, OPCODE_BINARY,
                                   OPCODE_CLOSE, OPCODE_PING, OPCODE_PONG}
        THEN 1002
        ELSE IF HeadOpcode = OPCODE_CONTINUATION /\ impl.receiving = "None" THEN 1002
        ELSE IF HeadOpcode \in {OPCODE_TEXT, OPCODE_BINARY} /\ impl.receiving # "None"
        THEN 1002
        ELSE IF HeadOpcode = OPCODE_TEXT /\ HeadFin /\ ~IsValidEncoding(data) THEN 1007
        ELSE IF /\ HeadOpcode = OPCODE_CONTINUATION /\ HeadFin
                /\ impl.receiving = "Text"
                /\ ~IsValidEncoding(impl.messageReassemblyBuffer \o data)
        THEN 1007
        ELSE IF HeadOpcode = OPCODE_CLOSE /\ ~ReasonAccepted(data) THEN 1007
        ELSE 0

\* C7: every protocol error in a frame the decoder processes (closeReceived
\* is false) is answered by the failure close: a close frame with code 1002
\* or 1007 is written, a Close event with that code is queued and nothing
\* else (so no Text event), and Break(false) is called.
C7_ErrorsFailTheConnection ==
    [][(FrameStep /\ ~impl.closeReceived /\ HeadError # 0) =>
          /\ WroteClose(HeadError)
          /\ QueuedClose(HeadError)
          /\ Broke(FALSE)]_vars

\* C8: with maxFrameSize = M > 0, a chunk that would bring the buffered
\* octets above M is answered by a close frame with code 1009, a Close event
\* with code 1009 and Break(false), and is not appended to the reassembly
\* buffer; any other chunk is appended to it.
C8_OversizeFailsTheConnection ==
    [][\A data \in CloseChunks(impl.role) :
          (DataReceived(data, PeerKey) /\ impl.maxFrameSize > 0) =>
              IF Len(impl.frameReassemblyBuffer) + Len(data) > impl.maxFrameSize
              THEN /\ WroteClose(1009)
                   /\ QueuedClose(1009)
                   /\ Broke(FALSE)
                   /\ impl'.frameReassemblyBuffer = impl.frameReassemblyBuffer
              ELSE impl'.frameReassemblyBuffer = impl.frameReassemblyBuffer \o data]_vars


(***************************************************************************)
(* SpecAssemble: fragmented messages with control frames between the       *)
(* fragments.  No delegates are installed, so every event stays on the     *)
(* event queue.                                                            *)
(***************************************************************************)
MaxAssembleChunks == 3

AssembleChunks(role) ==
    { TextStart(role), BinaryStart(role), ContinuationMore(role),
      ContinuationEnd(role), ContinuationParen(role),
      PingFrame(role), PongFrame(role), TextFrame(role),
      ContinuationMore(role) \o PingFrame(role),
      PingFrame(role) \o PongFrame(role) }

NextAssemble ==
    \/ \E role \in Role : Open(role)
    \/ chunks < MaxAssembleChunks /\ \E data \in AssembleChunks(impl.role) :
           DataReceived(data, PeerKey)
    \/ ReceiveDataFrame(PeerKey)
    \/ ReceiveDataReturn
    \/ ProcessEventQueue("net")

SpecAssemble == Init /\ [][NextAssemble]_vars

\* The k-th frame handed to ReceiveFrame, as the peer meant it.
SeenSound(k) ==
    /\ FrameReservedBits(frames[k].octets) = 0
    /\ FrameMask(frames[k].octets) = (impl.role = "Server")
SeenOpcode(k) == FrameOpcode(frames[k].octets)
SeenFin(k) == FrameFin(frames[k].octets)
SeenPayload(k) ==
    FramePayload(frames[k].octets, impl.role,
                 FrameHeader(frames[k].octets).headerLength,
                 FrameHeader(frames[k].octets).payloadLength)
SeenControl(k) == SeenSound(k) /\ SeenOpcode(k) \in {OPCODE_PING, OPCODE_PONG}
SeenFragment(k, fin) ==
    SeenSound(k) /\ SeenOpcode(k) = OPCODE_CONTINUATION /\ SeenFin(k) = fin

\* Frames i..j are one fragmented message: a first fragment received while
\* no message is in progress, middle fragments and control frames, and the
\* final fragment.
FragmentedMessage(i, j) ==
    /\ i < j
    /\ SeenSound(i) /\ SeenOpcode(i) \in {OPCODE_TEXT, OPCODE_BINARY} /\ ~SeenFin(i)
    /\ ~frames[i].before.closeReceived
    /\ frames[i].before.receiving = "None"
    /\ \A k \in (i + 1)..(j - 1) : SeenControl(k) \/ SeenFragment(k, FALSE)
    /\ SeenFragment(j, TRUE)

RECURSIVE Fragments(_, _)
Fragments(i, j) ==
    IF i > j THEN <<>>
    ELSE (IF SeenControl(i) THEN <<>> ELSE SeenPayload(i)) \o Fragments(i + 1, j)

MessageType(i) == IF SeenOpcode(i) = OPCODE_TEXT THEN "Text" ELSE "Binary"

\* The Text and Binary events pushed while frames i..j were processed.
MessagesPushed(i, j) ==
    SelectSeq(AllPushed,
              LAMBDA e : /\ e.seq > frames[i].before.pushed
                         /\ e.seq <= frames[j].after.pushed
                         /\ e.type \in {"Text", "Binary"})

\* C9: a first fragment (Text or Binary, FIN=0), any Continuation frames with
\* FIN=0 and a Continuation frame with FIN=1, with Ping and Pong frames
\* anywhere between them, queue exactly one Text (resp. Binary) event whose
\* content is the fragments' payloads in order (for Text, when these are
\* valid UTF-8); each control frame between them leaves receiving and the
\* message buffer as they were; after the final fragment receiving is None
\* and the message buffer is empty.
C9_FragmentsReassembled ==
    \A i \in 1..Len(frames) : \A j \in 1..Len(frames) :
        FragmentedMessage(i, j) =>
            /\ \A k \in (i + 1)..(j - 1) :
                   SeenControl(k) =>
                       /\ frames[k].after.receiving = frames[k].before.receiving
                       /\ frames[k].after.receiving = MessageType(i)
                       /\ frames[k].after.messageReassemblyBuffer
                              = frames[k].before.messageReassemblyBuffer
            /\ frames[j].after.receiving = "None"
            /\ frames[j].after.messageReassemblyBuffer = <<>>
            /\ (MessageType(i) = "Binary" \/ IsValidEncoding(Fragments(i, j))) =>
                   /\ Len(MessagesPushed(i, j)) = 1
                   /\ MessagesPushed(i, j)[1].type = MessageType(i)
                   /\ MessagesPushed(i, j)[1].content = Fragments(i, j)

\* A text message came in three fragments with a ping before the last one,
\* and its Text event is on the queue.
C9_Witness ==
    /\ Len(frames) = 4
    /\ FragmentedMessage(1, 4)
    /\ SeenFragment(2, FALSE)
    /\ SeenOpcode(3) = OPCODE_PING
    /\ \E n \in 1..Len(impl.eventQueue) :
           /\ impl.eventQueue[n].type = "Text"
           /\ impl.eventQueue[n].content = <<72, 195, 169>>


(***************************************************************************)
(* SpecSend: two application threads send fragments of text and binary     *)
(* messages, pings and a close; each call holds the mutex from its first   *)
(* test to its last assignment, so the calls are steps.                    *)
(***************************************************************************)
MaxSendCalls == 5

SendPayloads == {<<72>>}

NextSend ==
    \/ \E role \in Role : Open(role)
    \/ calls < MaxSendCalls /\ \E t \in AppThreads, data \in SendPayloads,
                                  lastFragment \in BOOLEAN :
           WebSocket_SendText(t, data, lastFragment, PeerKey)
    \/ calls < MaxSendCalls /\ \E t \in AppThreads, data \in SendPayloads,
                                  lastFragment \in BOOLEAN :
           WebSocket_SendBinary(t, data, lastFragment, PeerKey)
    \/ calls < MaxSendCalls /\ \E t \in AppThreads : WebSocket_Ping(t, <<>>, PeerKey)
    \/ calls < MaxSendCalls /\ \E t \in AppThreads :
           WebSocket_Close(t, 1000, <<>>, PeerKey)
    \/ \E t \in AppThreads : ProcessEventQueue(t)

SpecSend == Init /\ [][NextSend]_vars

\* The first octet of a written frame.
WrittenOpcode(frame) == frame[1] % 16
WrittenFin(frame) == frame[1] >= FIN

\* Where a reader of the written frames stands after the first n of them:
\* in no message, in a text or a binary message, or "Bad" once a data
\* frame did not fit.
RECURSIVE ReaderAfter(_)
ReaderAfter(n) ==
    IF n = 0 THEN "None"
    ELSE LET before == ReaderAfter(n - 1)
             opcode == WrittenOpcode(Sent[n])
             after(type) == IF WrittenFin(Sent[n]) THEN "None" ELSE type
         IN  IF opcode \notin {OPCODE_CONTINUATION, OPCODE_TEXT, OPCODE_BINARY}
             THEN before
             ELSE IF opcode = OPCODE_TEXT /\ before = "None" THEN after("Text")
             ELSE IF opcode = OPCODE_BINARY /\ before = "None" THEN after("Binary")
             ELSE IF opcode = OPCODE_CONTINUATION /\ before \in {"Text", "Binary"}
             THEN after(before)
             ELSE "Bad"

\* What a SendText or SendBinary call of the given type did.
SendStep(type, first, other, lastFragment) ==
    IF impl.sending = other
    THEN WroteNothing /\ impl'.sending = impl.sending
    ELSE IF ~impl.connection.bound \/ impl.closeSent
    THEN WroteNothing /\ impl'.sending = impl.sending
    ELSE /\ WroteOneFrame
         /\ WrittenOpcode(Last(impl'.connection.sent))
                = (IF impl.sending = "None" THEN first ELSE OPCODE_CONTINUATION)
         /\ WrittenFin(Last(impl'.connection.sent)) = lastFragment
         /\ impl'.sending = (IF lastFragment THEN "None" ELSE type)

SendSteps ==
    \A t \in AppThreads, data \in SendPayloads, lastFragment \in BOOLEAN :
        /\ WebSocket_SendText(t, data, lastFragment, PeerKey)
               => SendStep("Text", OPCODE_TEXT, "Binary", lastFragment)
        /\ WebSocket_SendBinary(t, data, lastFragment, PeerKey)
               => SendStep("Binary", OPCODE_BINARY, "Text", lastFragment)

\* C10: the data frames written by SendText and SendBinary calls of two
\* threads are well-formed messages: a Text or Binary opcode is written only
\* when sending is None, a Continuation opcode only when sending is the
\* call's type, a frame with FIN=1 sets sending to None; SendBinary while
\* sending is Text, and SendText while sending is Binary, write nothing and
\* leave sending as it was.  A reader of the written frames is therefore
\* always where sending says.
C10_WellFormedMessages ==
    /\ [](ReaderAfter(Len(Sent)) = impl.sending)
    /\ [][SendSteps]_vars

\* Three calls on an open connection wrote the two fragments of a text
\* message and nothing else: one call was turned down.
C10_Witness ==
    /\ calls = 3
    /\ impl.connection.bound /\ ~impl.closeSent
    /\ Len(Sent) = 2
    /\ WrittenOpcode(Sent[1]) = OPCODE_TEXT /\ ~WrittenFin(Sent[1])
    /\ WrittenOpcode(Sent[2]) = OPCODE_CONTINUATION /\ WrittenFin(Sent[2])
    /\ impl.sending = "None"


(***************************************************************************)
(* SpecQuiet: calls that the engine turns down.  The application pings,    *)
(* pongs, sends and closes, before Open and after Close as well, while a   *)
(* message and a frame are half received.                                  *)
(***************************************************************************)
MaxQuietCalls == 3
MaxQuietChunks == 1

Octets(n) == [i \in 1..n |-> 0]

ControlPayloads ==
    {<<>>, Octets(MAX_CONTROL_FRAME_DATA_LENGTH), Octets(MAX_CONTROL_FRAME_DATA_LENGTH + 1)}

QuietChunks(role) ==
    { TextStart(role), TextStart(role) \o SubSeq(ContinuationMore(role), 1, 1) }

NextQuiet ==
    \/ \E role \in Role : Open(role)
    \/ calls < MaxQuietCalls /\ \E data \in ControlPayloads : WebSocket_Ping("app", data, PeerKey)
    \/ calls < MaxQuietCalls /\ \E data \in ControlPayloads : WebSocket_Pong("app", data, PeerKey)
    \/ calls < MaxQuietCalls /\ \E data \in SendPayloads, lastFragment \in BOOLEAN :
           WebSocket_SendText("app", data, lastFragment, PeerKey)
    \/ calls < MaxQuietCalls /\ \E data \in SendPayloads, lastFragment \in BOOLEAN :
           WebSocket_SendBinary("app", data, lastFragment, PeerKey)
    \/ calls < MaxQuietCalls /\ WebSocket_Close("app", 1000, <<>>, PeerKey)
    \/ chunks < MaxQuietChunks /\ \E data \in QuietChunks(impl.role) :
           DataReceived(data, PeerKey)
    \/ ReceiveDataFrame(PeerKey)
    \/ ReceiveDataReturn
    \/ \E t \in {"net", "app"} : ProcessEventQueue(t)

SpecQuiet == Init /\ [][NextQuiet]_vars

\* The step left the protocol state alone.
ProtocolStateKept ==
    /\ impl'.closeSent = impl.closeSent
    /\ impl'.closeReceived = impl.closeReceived
    /\ impl'.sending = impl.sending
    /\ impl'.receiving = impl.receiving
    /\ impl'.frameReassemblyBuffer = impl.frameReassemblyBuffer
    /\ impl'.messageReassemblyBuffer = impl.messageReassemblyBuffer

Unusable == ~impl.connection.bound \/ impl.closeSent

\* C11: Ping, Pong, SendText and SendBinary called with no transport bound
\* or with closeSent true, and Ping and Pong called with more than 125
\* octets, write nothing and leave closeSent, closeReceived, sending,
\* receiving and both reassembly buffers as they were.
C11_TurnedDownCallsAreSilent ==
    [][/\ \A data \in ControlPayloads :
              ( /\ WebSocket_Ping("app", data, PeerKey) \/ WebSocket_Pong("app", data, PeerKey)
                /\ Unusable \/ Len(data) > MAX_CONTROL_FRAME_DATA_LENGTH )
              => WroteNothing /\ ProtocolStateKept
       /\ \A data \in SendPayloads, lastFragment \in BOOLEAN :
              ( /\ \/ WebSocket_SendText("app", data, lastFragment, PeerKey)
                   \/ WebSocket_SendBinary("app", data, lastFragment, PeerKey)
                /\ Unusable )
              => WroteNothing /\ ProtocolStateKept]_vars

\* After Close, while a text message and a frame are half received and a
\* text message is half sent, a further call wrote nothing: the close frame
\* is the last frame written.
C11_Witness ==
    /\ calls = 3
    /\ impl.closeSent
    /\ impl.sending = "Text"
    /\ impl.receiving = "Text"
    /\ impl.frameReassemblyBuffer # <<>>
    /\ Len(Sent) = 2
    /\ Sent[2][1] = FIN + OPCODE_CLOSE


(***************************************************************************)
(* Close requests after the first, under SpecClose.                        *)
(***************************************************************************)
\* The step held a Close request: the public Close, a failure close of the
\* decoder, the size cap, or the broken notification.
CloseRequested ==
    \/ calls' = calls + 1
           /\ \E code \in {1000, 1006} : WebSocket_Close("app", code, <<>>, PeerKey)
    \/ FrameStep /\ ~impl.closeReceived /\ HeadError # 0
    \/ chunks' = chunks + 1
           /\ \E data \in CloseChunks(impl.role) :
                  ReceiveDataCapped(impl, data) /\ DataReceived(data, PeerKey)
    \/ brokenCalls' = brokenCalls + 1

MaxControlCalls == 2
MaxControlChunks == 1

CloseReasons ==
    {<<>>, Octets(MAX_CONTROL_FRAME_DATA_LENGTH - 2), Octets(MAX_CONTROL_FRAME_DATA_LENGTH - 1)}

ControlChunks(role) ==
    { PingFrame(role),
      Frame(role, 1, OPCODE_PING, Octets(MAX_CONTROL_FRAME_DATA_LENGTH)),
      Frame(role, 1, OPCODE_PING, Octets(MAX_CONTROL_FRAME_DATA_LENGTH + 1)),
      PongFrame(role),
      PingFrame(role) \o TextFrame(role),
      PongFrame(role) \o PingFrame(role),
      ReservedBitsFrame(role) }

NextControl ==
    \/ \E role \in Role : Open(role)
    \/ calls < MaxControlCalls /\ \E data \in ControlPayloads :
           WebSocket_Ping("app", data, PeerKey)
    \/ calls < MaxControlCalls /\ \E data \in ControlPayloads :
           WebSocket_Pong("app", data, PeerKey)
    \/ calls < MaxControlCalls /\ \E code \in {1000, 1005}, reason \in CloseReasons :
           WebSocket_Close("app", code, reason, PeerKey)
    \/ chunks < MaxControlChunks /\ \E data \in ControlChunks(impl.role) :
           DataReceived(data, PeerKey)
    \/ ReceiveDataFrame(PeerKey)
    \/ ReceiveDataReturn
    \/ \E t \in {"net", "app"} : ProcessEventQueue(t)

SpecControl == Init /\ [][NextControl]_vars

\* The payload length a written frame announces, up to 16 bits.
WrittenLength(frame) ==
    IF frame[2] % MASK < 126 THEN frame[2] % MASK ELSE frame[3] * 256 + frame[4]

\* C13: every control frame the engine writes (Close, Ping, Pong), from a
\* Ping or Pong call, a Close with any reason, or in answer to a received
\* Ping, has FIN=1 and at most 125 payload octets.
C13_ControlFramesAreShort ==
    \A n \in 1..Len(Sent) :
        WrittenOpcode(Sent[n]) >= OPCODE_CLOSE =>
            /\ WrittenFin(Sent[n])
            /\ WrittenLength(Sent[n]) <= MAX_CONTROL_FRAME_DATA_LENGTH


\* The step pushed one event of the given type and content.
QueuedEvent(type, content) ==
    /\ QueuedOneEvent
    /\ Last(impl'.eventQueue).type = type
    /\ Last(impl'.eventQueue).content = content

(***************************************************************************)
(* SpecPing: the peer's pings and pongs, before and after the application  *)
(* asks for the close.                                                     *)
(***************************************************************************)
MaxPingCalls == 1
MaxPingChunks == 2

NextPing ==
    \/ \E role \in Role : Open(role)
    \/ calls < MaxPingCalls /\ WebSocket_Close("app", 1000, <<>>, PeerKey)
    \/ chunks < MaxPingChunks /\ \E data \in ControlChunks(impl.role) :
           DataReceived(data, PeerKey)
    \/ ReceiveDataFrame(PeerKey)
    \/ ReceiveDataReturn
    \/ \E t \in {"net", "app"} : ProcessEventQueue(t)

SpecPing == Init /\ [][NextPing]_vars

\* C14: the step that processes a received Ping frame (sound, closeReceived
\* false) writes one Pong frame with FIN=1 and the Ping's payload, so before
\* any later frame of the chunk is processed, and queues one Ping event with
\* that payload; the step that processes a received Pong frame queues one
\* Pong event with its payload and writes nothing.
C14_PingIsAnswered ==
    [][(FrameStep /\ ~impl.closeReceived /\ HeadSound) =>
          /\ HeadOpcode = OPCODE_PING =>
                 /\ WroteOneFrame
                 /\ WrittenOpcode(Last(impl'.connection.sent)) = OPCODE_PONG
                 /\ WrittenFin(Last(impl'.connection.sent))
                 /\ WrittenLength(Last(impl'.connection.sent)) = Len(HeadPayload)
                 /\ Len(HeadPayload) < 126 =>
                        WrittenPayload(Last(impl'.connection.sent)) = HeadPayload
                 /\ QueuedEvent("Ping", HeadPayload)
          /\ HeadOpcode = OPCODE_PONG =>
                 /\ WroteNothing
                 /\ QueuedEvent("Pong", HeadPayload)]_vars

\* A chunk held a ping and a text frame: the pong with the ping's payload
\* is written, the Ping event is queued before the Text event.
C14_Witness ==
    /\ Len(frames) = 2
    /\ frames[1].octets = PingFrame(impl.role)
    /\ frames[2].octets = TextFrame(impl.role)
    /\ Len(Sent) = 1
    /\ WrittenOpcode(Sent[1]) = OPCODE_PONG
    /\ WrittenPayload(Sent[1]) = <<7>>
    /\ Len(impl.eventQueue) = 2
    /\ impl.eventQueue[1].type = "Ping"
    /\ impl.eventQueue[1].content = <<7>>


(***************************************************************************)
(* SpecCodec: what one engine writes is read by an engine of the other     *)
(* role.  The application sends payloads of every length class.            *)
(***************************************************************************)
MaxCodecCalls == 1

\* Payload lengths of the three length classes.  The long ones are sent as
\* the first message, binary and whole; text, which the reader validates
\* octet by octet, is short.
TextLengths == {0, 1, 60}
ShortLengths == {0, 1, 125, 126}
LongLengths == {65535, 65536}
CodecLengths == ShortLengths \cup LongLengths

\* A payload of n octets of ASCII.
Pattern(n) == [i \in 1..n |-> (i * 7) % 128]

NextCodec ==
    \/ \E role \in Role : Open(role)
    \/ calls < MaxCodecCalls /\ \E t \in AppThreads, n \in TextLengths,
                                   lastFragment \in BOOLEAN, key \in MaskKeys :
           WebSocket_SendText(t, Pattern(n), lastFragment, key)
    \/ calls < MaxCodecCalls /\ \E t \in AppThreads, n \in ShortLengths,
                                   lastFragment \in BOOLEAN, key \in MaskKeys :
           WebSocket_SendBinary(t, Pattern(n), lastFragment, key)
    \/ calls = 0 /\ \E n \in LongLengths :
           WebSocket_SendBinary("app", Pattern(n), TRUE, PeerKey)
    \/ calls < MaxCodecCalls /\ \E t \in AppThreads, n \in {0, 1, 125}, key \in MaskKeys :
           WebSocket_Ping(t, Pattern(n), key)
    \/ \E t \in AppThreads : ProcessEventQueue(t)

SpecCodec == Init /\ [][NextCodec]_vars

\* An open engine of the other role, and that engine after ReceiveData
\* was given the octets.
Opposite(role) == IF role = "Client" THEN "Server" ELSE "Client"
PeerEngine(role) == [NewImpl(Opposite(role)) EXCEPT !.connection.bound = TRUE]
PeerAfter(role, octets) == ReceiveDataTurn(ReceiveDataEnter(PeerEngine(role), octets))

\* The octets are one frame that the engine of the other role accepts and
\* reads as fin, opcode and payload.
ReadBack(role, octets, fin, opcode, payload) ==
    LET h == FrameHeader(octets)
        peer == PeerAfter(role, octets)
    IN  /\ h.complete /\ ~h.overrun
        /\ h.frameLength = Len(octets)
        /\ h.payloadLength = Len(payload)
        /\ FrameFin(octets) = fin
        /\ FrameOpcode(octets) = opcode
        /\ FramePayload(octets, Opposite(role), h.headerLength, h.payloadLength) = payload
        /\ ~peer.closeSent
        /\ peer.connection.breaks = <<>>
        /\ peer.frameReassemblyBuffer = <<>>

\* The length octets of a written frame's length class.
LengthClass(octets, n) ==
    IF n < 126 THEN octets[2] % MASK = n
    ELSE IF n < 65536 THEN octets[2] % MASK = 126 /\ octets[3] * 256 + octets[4] = n
    ELSE /\ octets[2] % MASK = 127
         /\ SubSeq(octets, 3, 7) = <<0, 0, 0, 0, 0>>
         /\ octets[8] * 65536 + octets[9] * 256 + octets[10] = n

LengthOctetCount(n) == IF n < 126 THEN 1 ELSE IF n < 65536 THEN 3 ELSE 9

\* The frame the step wrote is masked by role, with the key before the
\* payload, and is read back by the other role.
WroteRoundTrip(fin, opcode, payload, key) ==
    /\ WroteOneFrame
    /\ LET octets == Last(impl'.connection.sent)
           n == Len(payload)
       IN  /\ FrameMask(octets) = (impl.role = "Client")
           /\ LengthClass(octets, n)
           /\ Len(octets) = 1 + LengthOctetCount(n)
                              + (IF impl.role = "Client" THEN 4 ELSE 0) + n
           /\ impl.role = "Client" =>
                  SubSeq(octets, 2 + LengthOctetCount(n), 5 + LengthOctetCount(n)) = key
           /\ ReadBack(impl.role, octets, fin, opcode, payload)

\* The length of the frame that carries n payload octets.
WrittenSize(n) ==
    1 + LengthOctetCount(n) + (IF impl.role = "Client" THEN 4 ELSE 0) + n

\* The step of thread t wrote one frame of that size, opcode and FIN with
\* that key drawn.
Wrote(t, n, fin, opcode, key) ==
    /\ WroteOneFrame
    /\ pc'[t] # pc[t]
    /\ Len(Last(impl'.connection.sent)) = WrittenSize(n)
    /\ WrittenOpcode(Last(impl'.connection.sent)) = opcode
    /\ WrittenFin(Last(impl'.connection.sent)) = fin
    /\ impl'.rng = key

\* C15: every frame a Client writes has MASK=1 and the 4-octet key before the
\* payload, every frame a Server writes has MASK=0; for payloads of each
\* length class (1, 3 and 9 length octets) the octets written, given to
\* ReceiveData of an engine of the other role, are accepted without a
\* protocol error and read as the same FIN, opcode and payload.
C15_CodecRoundTrip ==
    [][\A t \in AppThreads, n \in CodecLengths \cup TextLengths,
          lastFragment \in BOOLEAN, key \in MaskKeys :
          /\ ( /\ n \in TextLengths
               /\ Wrote(t, n, lastFragment, OPCODE_TEXT, key)
               /\ WebSocket_SendText(t, Pattern(n), lastFragment, key) )
                 => WroteRoundTrip(lastFragment, OPCODE_TEXT, Pattern(n), key)
          /\ ( /\ Wrote(t, n, lastFragment, OPCODE_BINARY, key)
               /\ WebSocket_SendBinary(t, Pattern(n), lastFragment, key) )
                 => WroteRoundTrip(lastFragment, OPCODE_BINARY, Pattern(n), key)
          /\ ( /\ Wrote(t, n, TRUE, OPCODE_PING, key)
               /\ WebSocket_Ping(t, Pattern(n), key) )
                 => WroteRoundTrip(TRUE, OPCODE_PING, Pattern(n), key)]_vars

\* A client wrote a whole binary message of 126 octets: the length in two
\* octets after the octet 126, the key, the masked payload.
C15_Witness ==
    /\ impl.role = "Client"
    /\ Len(Sent) = 1
    /\ Len(Sent[1]) = 8 + 126
    /\ Sent[1][1] = FIN + OPCODE_BINARY
    /\ SubSeq(Sent[1], 2, 4) = <<MASK + 126, 0, 126>>
    /\ SubSeq(Sent[1], 5, 8) = PeerKey
    /\ MaskPayload(SubSeq(Sent[1], 9, Len(Sent[1])), PeerKey) = Pattern(126)


(***************************************************************************)
(* SpecCloseCodec: the close frame one engine writes is read by an engine  *)
(* of the other role.                                                      *)
(***************************************************************************)
MaxCloseCodecCalls == 2

\* Status codes, one of them wider than 16 bits, and reasons, one of them
\* not UTF-8.
CloseCodes == {1000, 1005, 1006, 4999, 65536 + 1000}
RoundTripReasons == {<<>>, <<72>>, <<195, 169>>, <<255>>}

NextCloseCodec ==
    \/ \E role \in Role : Open(role)
    \/ calls < MaxCloseCodecCalls /\ \E t \in AppThreads, code \in CloseCodes,
                                        reason \in RoundTripReasons, key \in MaskKeys :
           WebSocket_Close(t, code, reason, key)
    \/ \E t \in AppThreads : ProcessEventQueue(t)

SpecCloseCodec == Init /\ [][NextCloseCodec]_vars

\* The engine of the other role, given the octets, queued one event: a
\* Close event with that code and reason.
PeerQueuedClose(role, octets, code, reason) ==
    LET peer == PeerAfter(role, octets)
    IN  /\ Len(peer.eventQueue) = 1
        /\ peer.eventQueue[1].type = "Close"
        /\ peer.eventQueue[1].closeCode = code
        /\ peer.eventQueue[1].content = reason

\* The step wrote one close frame with that payload.
WroteClosePayload(payload) ==
    /\ WroteOneFrame
    /\ Last(impl'.connection.sent)[1] = FIN + OPCODE_CLOSE
    /\ WrittenPayload(Last(impl'.connection.sent)) = payload

FirstClose(t, code, reason, key) ==
    /\ impl.connection.bound /\ ~impl.closeSent
    /\ WebSocket_Close(t, code, reason, key)

\* C16 as stated: Close(code, reason) with a code other than 1005 and 1006
\* writes a close frame whose payload is the code as a big-endian 16-bit
\* value and the reason, and the peer queues a Close event with the same
\* code and reason; Close(1005, reason) writes a close frame with an empty
\* payload, which the peer reads as a Close event with code 1005 and an
\* empty reason.
C16_CloseRoundTripAnyReason ==
    [][\A t \in AppThreads, code \in CloseCodes, reason \in RoundTripReasons, key \in MaskKeys :
          FirstClose(t, code, reason, key) =>
              IF code = 1006 THEN TRUE
              ELSE IF code = 1005
              THEN /\ WroteClosePayload(<<>>)
                   /\ PeerQueuedClose(impl.role, Last(impl'.connection.sent), 1005, <<>>)
              ELSE /\ WroteOneFrame
                   /\ PeerCode(WrittenPayload(Last(impl'.connection.sent))) = code
                   /\ WroteClosePayload(<<code \div 256, code % 256>> \o reason)
                   /\ PeerQueuedClose(impl.role, Last(impl'.connection.sent), code, reason)]_vars

\* C16 amended: Close(code, reason) with a code below 65536 other than 1005
\* and 1006 writes a close frame whose payload is the code as a big-endian
\* 16-bit value and the reason; the peer queues a Close event with the same
\* code and reason when the reason is valid UTF-8, and a Close event with
\* code 1007 when it is not.  A code of 65536 or more is written as its low
\* 16 bits.  Close(1005, reason) writes a close frame with an empty payload,
\* which the peer reads as a Close event with code 1005 and an empty reason.
C16_CloseRoundTrip ==
    [][\A t \in AppThreads, code \in CloseCodes, reason \in RoundTripReasons, key \in MaskKeys :
          FirstClose(t, code, reason, key) =>
              IF code = 1006 THEN TRUE
              ELSE IF code = 1005
              THEN /\ WroteClosePayload(<<>>)
                   /\ PeerQueuedClose(impl.role, Last(impl'.connection.sent), 1005, <<>>)
              ELSE /\ WroteClosePayload(<<(code % 65536) \div 256, code % 256>> \o reason)
                   /\ IF IsValidEncoding(reason)
                      THEN PeerQueuedClose(impl.role, Last(impl'.connection.sent),
                                           code % 65536, reason)
                      ELSE PeerQueuedClose(impl.role, Last(impl'.connection.sent),
                                           1007, ReasonInvalidUtf8Close)]_vars

\* Close(1000) with a two-octet reason was written: code and reason are the
\* payload of the one frame.
C16_Witness ==
    /\ impl.closeSent
    /\ Len(Sent) = 1
    /\ Sent[1][1] = FIN + OPCODE_CLOSE
    /\ WrittenPayload(Sent[1]) = <<3, 232, 195, 169>>

(***************************************************************************)
(* The opening handshake: an application prepares a request, validates a   *)
(* response or answers a request, and then sends a text message.           *)
(***************************************************************************)
MaxHandshakeCalls == 2

\* The nonces the random generator may yield.
Nonces == { [i \in 1..16 |-> i], [i \in 1..16 |-> (i * 37) % 256] }

\* The requests an application hands to StartOpenAsClient.
BlankRequest == [NoRequest EXCEPT !.method = "GET"]
ClientRequests == { BlankRequest, [BlankRequest EXCEPT !.connection = <<"keep-alive">>] }

\* The request a client peer prepared from nonce, and what a server may be
\* handed instead.
PeerRequest(nonce) == StartOpenAsClientRequest(BlankRequest, nonce)
ServerRequests ==
    LET good == PeerRequest([i \in 1..16 |-> i])
    IN  { PeerRequest(nonce) : nonce \in Nonces }
        \cup { [good EXCEPT !.method = "POST"],
               [good EXCEPT !.method = "POST", !.version = "12"],
               [good EXCEPT !.connection = <<"keep-alive">>],
               [good EXCEPT !.connection = <<"keep-alive">>, !.key = <<>>],
               [good EXCEPT !.upgrade = "h2c"],
               [good EXCEPT !.upgrade = "WebSocket"],
               [good EXCEPT !.version = "12"],
               [good EXCEPT !.version = ""],
               [good EXCEPT !.key = <<>>],
               [good EXCEPT !.key = Base64Encode([i \in 1..15 |-> i])],
               [good EXCEPT !.key = Base64Encode([i \in 1..17 |-> i])] }
Trailers == { "", "X-Checksum: 1" }

\* The responses a server is handed to fill in.
GivenResponses ==
    { NoResponse,
      [NoResponse EXCEPT !.statusCode = 200, !.reasonPhrase = "OK",
                         !.connection = <<"keep-alive">>] }

\* The response a server peer gives to request, and what a client may be
\* handed instead.
PeerResponse(request) == OpenAsServerResponse(request, NoResponse, "")
ClientResponses(request) ==
    LET good == [NoResponse EXCEPT !.statusCode = 101,
                                   !.reasonPhrase = "Switching Protocols",
                                   !.connection = <<"keep-alive", "upgrade">>,
                                   !.upgrade = "WebSocket",
                                   !.accept = ComputeKeyAnswer(request.key)]
    IN  { PeerResponse(request), good,
          [good EXCEPT !.statusCode = 200],
          [good EXCEPT !.connection = <<"keep-alive">>],
          [good EXCEPT !.upgrade = "h2c"],
          [good EXCEPT !.accept = <<>>],
          [good EXCEPT !.accept = ComputeKeyAnswer(Base64Encode([i \in 1..16 |-> 0]))],
          [good EXCEPT !.accept = request.key],
          [good EXCEPT !.extensions = <<"permessage-deflate">>],
          [good EXCEPT !.protocol = <<"chat">>] }

NextHandshake ==
    \/ calls < MaxHandshakeCalls /\ \E request \in ClientRequests, nonce \in Nonces :
           StartOpenAsClient(request, nonce)
    \/ calls < MaxHandshakeCalls /\ \E response \in ClientResponses(http.request) :
           FinishOpenAsClient(response)
    \/ calls < MaxHandshakeCalls
           /\ \E request \in ServerRequests, response \in GivenResponses, trailer \in Trailers :
                  OpenAsServer(request, response, trailer)
    \/ calls < MaxHandshakeCalls /\ WebSocket_SendText("app", <<72>>, TRUE, PeerKey)
    \/ ProcessEventQueue("app")

SpecHandshake == Init /\ [][NextHandshake]_vars

\* The step is a call of the named handshake method.
HandshakeStep(call) == http'.count = http.count + 1 /\ http'.call = call

\* The step bound no transport and registered no transport callback.
BoundNothing == impl'.connection = impl.connection /\ impl'.role = impl.role

\* C17: OpenAsServer returns false and leaves the response as it was given
\* when the method is not GET, the Connection header lacks the token
\* upgrade or Upgrade is not websocket (compared without regard to case);
\* when none of these holds but the version is not 13, the trailer is not
\* empty or the key does not decode to 16 bytes, it returns false with the
\* response set to 400 Bad Request; in both cases it binds no transport;
\* otherwise, and only then, it returns true, sets status 101 and the
\* Upgrade, Connection and Sec-WebSocket-Accept headers, and binds the
\* transport with role Server.
C17_OpenAsServerChecks ==
    [][HandshakeStep("OpenAsServer") =>
          LET request == http'.request
              response == http'.response
              ignored ==
                  \/ request.method # "GET"
                  \/ \A i \in 1..Len(request.connection) : request.connection[i] # "upgrade"
                  \/ ToLower(request.upgrade) # "websocket"
              refused ==
                  \/ request.version # "13"
                  \/ http'.trailer # ""
                  \/ Len(Base64Decode(request.key)) # 16
          IN  /\ ignored =>
                     ~http'.returned /\ response = http'.given /\ BoundNothing
              /\ ~ignored /\ refused =>
                     /\ ~http'.returned
                     /\ response.statusCode = 400
                     /\ response.reasonPhrase = "Bad Request"
                     /\ BoundNothing
              /\ ~ignored /\ ~refused =>
                     /\ http'.returned
                     /\ response.statusCode = 101
                     /\ response.upgrade = "websocket"
                     /\ response.connection = Append(http'.given.connection, "upgrade")
                     /\ response.accept = ComputeKeyAnswer(request.key)
                     /\ impl'.connection.bound
                     /\ impl'.role = "Server"
              /\ http'.returned => ~ignored /\ ~refused]_vars

\* A server turned down a request whose key decodes to 15 bytes: the
\* response it was handed says 400 and no transport is bound.
C17_Witness ==
    /\ http.call = "OpenAsServer"
    /\ ~http.returned
    /\ http.request.version = "13"
    /\ http.trailer = ""
    /\ Len(Base64Decode(http.request.key)) = 15
    /\ http.given.statusCode = 200
    /\ http.response.statusCode = 400
    /\ ~impl.connection.bound

\* C18: after StartOpenAsClient, FinishOpenAsClient returns true and binds
\* the transport with role Client exactly when the response has status 101,
\* the token upgrade in Connection, Upgrade equal to websocket without
\* regard to case, Sec-WebSocket-Accept equal to the answer computed from
\* the key StartOpenAsClient stored and put in the request, and neither
\* extensions nor protocols; otherwise it returns false and binds nothing.
\* The response a server gives on accepting the prepared request is one it
\* returns true for.
C18_FinishOpenAsClientChecks ==
    [][HandshakeStep("FinishOpenAsClient") /\ http.call = "StartOpenAsClient" =>
          LET response == http'.given
              accepted ==
                  /\ response.statusCode = 101
                  /\ \E i \in 1..Len(response.connection) : response.connection[i] = "upgrade"
                  /\ ToLower(response.upgrade) = "websocket"
                  /\ response.accept = ComputeKeyAnswer(http.request.key)
                  /\ response.extensions = <<>>
                  /\ response.protocol = <<>>
          IN  /\ http'.returned <=> accepted
              /\ accepted => impl'.connection.bound /\ impl'.role = "Client"
              /\ ~accepted => BoundNothing
              /\ OpenAsServerReturns(http.request, "") /\ response = PeerResponse(http.request)
                     => http'.returned]_vars

\* A client was handed the response of the server that accepted the request
\* it had prepared, and is bound as a client.
C18_Witness ==
    /\ http.call = "FinishOpenAsClient"
    /\ http.request.connection = <<"keep-alive", "upgrade">>
    /\ OpenAsServerReturns(http.request, "")
    /\ http.given = PeerResponse(http.request)
    /\ http.returned
    /\ impl.connection.bound
    /\ impl.role = "Client"
    /\ impl.key = http.request.key

(***************************************************************************)
(* The mutex and the delegates: a transport thread and an application      *)
(* thread, a peer that sends messages, protocol errors and close frames,   *)
(* and a transport that may report the break from inside Break.            *)
(***************************************************************************)
MaxLockCalls == 2
MaxLockChunks == 2
MaxLockBroken == 1

LockChunks(role) ==
    { TextFrame(role), CloseNormal(role), UnknownOpcodeFrame(role),
      TextFrame(role) \o CloseNormal(role) }

NextLock ==
    \/ \E role \in Role : Open(role)
    \/ calls < MaxLockCalls /\ \E t \in {"net", "app"}, d \in DelegateSets :
           WebSocket_SetDelegates(t, d)
    \/ calls < MaxLockCalls /\ \E t \in {"net", "app"} :
           WebSocket_Close(t, 1000, <<>>, PeerKey)
    \/ calls < MaxLockCalls /\ \E t \in {"net", "app"} :
           WebSocket_SendText(t, <<72>>, TRUE, PeerKey)
    \/ chunks < MaxLockChunks /\ \E data \in LockChunks(impl.role) :
           DataReceived(data, PeerKey)
    \/ ReceiveDataFrame(PeerKey)
    \/ brokenCalls < MaxLockBroken /\ ReceiveDataFrameBreaking(PeerKey)
    \/ ReceiveDataReturn
    \/ brokenCalls < MaxLockBroken /\ Broken
    \/ \E t \in Threads : ProcessEventQueue(t)
    \/ \E t \in Threads : Dispatch(t)
    \/ \E t \in Threads : DelegateReturn(t)
    \/ \E t \in Threads : ProcessEventQueueReturn(t)

SpecLock == Init /\ [][NextLock]_vars

\* How many times thread t holds the mutex between two steps.
HoldCount(t) == IF mutex = t THEN 1 ELSE 0

\* C20: no delegate runs while the thread that invoked it holds the mutex,
\* whatever the path to ProcessEventQueue, a call the transport makes from
\* inside Break included.
C20_DelegatesRunUnlocked ==
    \A t \in Threads : pc[t] = "delegate" => HoldCount(t) = 0

(***************************************************************************)
(* SpecChunk: chunks of several frames, decoded while an application       *)
(* thread waits in ProcessEventQueue, and a transport that may report the  *)
(* break from inside Break.                                                *)
(***************************************************************************)
MaxChunkCalls == 1
MaxChunkChunks == 2
MaxChunkBroken == 1

SeveralFrames(role) ==
    { TextFrame(role),
      TextFrame(role) \o PingFrame(role),
      TextFrame(role) \o UnknownOpcodeFrame(role) \o TextFrame(role),
      PingFrame(role) \o CloseNormal(role) \o PingFrame(role) }

NextChunk ==
    \/ \E role \in Role : Open(role)
    \/ calls < MaxChunkCalls /\ \E d \in DelegateSets : WebSocket_SetDelegates("app", d)
    \/ chunks < MaxChunkChunks /\ \E data \in SeveralFrames(impl.role) :
           DataReceived(data, PeerKey)
    \/ ReceiveDataFrame(PeerKey)
    \/ brokenCalls < MaxChunkBroken /\ ReceiveDataFrameBreaking(PeerKey)
    \/ ReceiveDataReturn
    \/ \E t \in {"net", "app"} : ProcessEventQueue(t)
    \/ \E t \in {"net", "app"} : Dispatch(t)
    \/ \E t \in {"net", "app"} : DelegateReturn(t)
    \/ \E t \in {"net", "app"} : ProcessEventQueueReturn(t)

SpecChunk == Init /\ [][NextChunk]_vars

\* How many events had been pushed when the first frame of chunk k was
\* handed to ReceiveFrame, frames being the frames handed over so far.
PushedBefore(k, handed) ==
    LET first == CHOOSE i \in 1..Len(handed) :
                     /\ handed[i].chunk = k
                     /\ \A j \in 1..(i - 1) : handed[j].chunk # k
    IN  handed[first].before.pushed

MaxLengthChunks == 2
\* A wrapped frame length of zero erases nothing, and the loop of ReceiveData
\* hands the same frame over again without end: the turns are capped.
MaxLengthFrames == 3

\* A final binary frame with a 64-bit length field of the given 8 octets,
\* followed by the given octets.
LongFrame(masked, lengthOctets, rest) ==
    <<FIN + OPCODE_BINARY, 127 + (IF masked THEN MASK ELSE 0)>> \o lengthOctets \o rest

LengthChunks(role) ==
    { BinaryFrame(role),
      Frame(role, 1, OPCODE_BINARY, Octets(126)),
      SubSeq(Frame(role, 1, OPCODE_BINARY, Octets(126)), 1, 3),
      LongFrame(FALSE, <<0, 0, 0, 0, 0, 0, 0, 2>>, <<1, 2>>),
      LongFrame(TRUE, <<0, 0, 0, 0, 0, 0, 0, 2>>, PeerKey \o MaskPayload(<<1, 2>>, PeerKey)),
      LongFrame(FALSE, <<0, 0, 0, 1, 0, 0, 0, 0>>, <<1, 2>>),
      LongFrame(FALSE, <<255, 255, 255, 255, 255, 255, 255, 246>>, <<>>),
      LongFrame(FALSE, <<255, 255, 255, 255, 255, 255, 255, 248>>, <<1, 2>>),
      LongFrame(TRUE, <<255, 255, 255, 255, 255, 255, 255, 242>>, PeerKey) }

NextLength ==
    \/ \E role \in Role : Open(role)
    \/ chunks < MaxLengthChunks /\ \E data \in LengthChunks(impl.role) :
           DataReceived(data, PeerKey)
    \/ ReceiveDataFrame(PeerKey)
    \/ Len(frames) < MaxLengthFrames /\ ReceiveDataFrameOverrun(PeerKey)
    \/ ReceiveDataReturn
    \/ ProcessEventQueue("net")

SpecLength == Init /\ [][NextLength]_vars

\* The reassembly buffer fb holds the whole of the frame at its head: its
\* header and as many payload octets as the length field says.
HoldsFrame(fb) ==
    /\ Len(fb) >= 2
    /\ LET maskOctets == IF (fb[2] \div MASK) % 2 # 0 THEN 4 ELSE 0
           lengthFirstOctet == fb[2] % MASK
       IN  CASE lengthFirstOctet = 126 ->
                    /\ Len(fb) >= 4
                    /\ Len(fb) >= 4 + maskOctets + fb[3] * 256 + fb[4]
             [] lengthFirstOctet = 127 ->
                    /\ Len(fb) >= 10
                    /\ ~IsHuge(SubSeq(fb, 3, 10))
                    /\ Len(fb) >= 10 + maskOctets + Small(SubSeq(fb, 3, 10))
             [] OTHER -> Len(fb) >= 2 + maskOctets + lengthFirstOctet

\* C22: ReceiveData hands a frame to ReceiveFrame only when the reassembly
\* buffer holds headerLength + payloadLength octets, whatever the length
\* field and the mask bit.
C22_FramesLieInTheBuffer ==
    [][FrameStep => HoldsFrame(impl.frameReassemblyBuffer)]_vars


(***************************************************************************)
(* SpecShutdown: the end of a connection from every side.  The peer sends  *)
(* close frames, pings, data and faulty frames in any order, the           *)
(* application closes with and without the code 1006 and goes on sending,  *)
(* chunks exceed maxFrameSize and the transport reports the connection     *)
(* broken.                                                                 *)
(***************************************************************************)
MaxShutdownCalls == 1
MaxShutdownChunks == 1
MaxShutdownBroken == 1

ShutdownChunks(role) ==
    { TextFrame(role), PingFrame(role), PongFrame(role), CloseNormal(role),
      UnknownOpcodeFrame(role),
      CloseNormal(role) \o PingFrame(role),
      PingFrame(role) \o BinaryFrame(role) \o PingFrame(role) }

NextShutdown ==
    \/ \E role \in Role : Open(role)
    \/ calls < MaxShutdownCalls /\ Configure("app", 8)
    \/ calls < MaxShutdownCalls /\ \E code \in {1000, 1006} :
           WebSocket_Close("app", code, <<>>, PeerKey)
    \/ calls < MaxShutdownCalls /\ WebSocket_Ping("app", <<7>>, PeerKey)
    \/ calls < MaxShutdownCalls /\ WebSocket_Pong("app", <<7>>, PeerKey)
    \/ calls < MaxShutdownCalls /\ WebSocket_SendText("app", <<104>>, TRUE, PeerKey)
    \/ calls < MaxShutdownCalls /\ WebSocket_SendBinary("app", <<0>>, TRUE, PeerKey)
    \/ chunks < MaxShutdownChunks /\ \E data \in ShutdownChunks(impl.role) :
           DataReceived(data, PeerKey)
    \/ ReceiveDataFrame(PeerKey)
    \/ ReceiveDataReturn
    \/ brokenCalls < MaxShutdownBroken /\ Broken
    \/ \E t \in {"net", "app"} : ProcessEventQueue(t)

SpecShutdown == Init /\ [][NextShutdown]_vars

\* C23: once a Close event has been pushed onto the event queue, no Text,
\* Binary, Ping or Pong event is pushed onto it: in the order of the pushes
\* nothing but Close events follows a Close event.
C23_NothingQueuedAfterClose ==
    \A i \in 1..Len(AllPushed) : \A j \in 1..Len(AllPushed) :
        (i < j /\ AllPushed[i].type = "Close") =>
            AllPushed[j].type \notin {"Text", "Binary", "Ping", "Pong"}

\* A Close event was pushed, and afterwards ReceiveData handed a sound ping
\* frame to ReceiveFrame and the application called a method.
C23_Witness ==
    /\ Len(frames) >= 2
    /\ frames[Len(frames)].before.closeReceived
    /\ frames[Len(frames)].octets = PingFrame(impl.role)
    /\ ~NoCloseQueued
    /\ calls >= 1
    /\ Last(AllPushed).type = "Close"

\* A close frame is among the frames written to the transport.
CloseWritten == \E i \in 1..Len(Sent) : WrittenOpcode(Sent[i]) = OPCODE_CLOSE

\* C25: after the engine has written a close frame to the transport it
\* writes no further frame of any kind: no step of the application, of the
\* decoder or of the transport's notifications adds to the written frames.
C25_NothingWrittenAfterClose ==
    [][CloseWritten => WroteNothing]_vars

\* C26: at most one Close event is ever pushed onto the event queue.
C26_OneCloseEvent ==
    Cardinality({ i \in 1..Len(AllPushed) : AllPushed[i].type = "Close" }) <= 1

\* The calls the engine made on the transport, in their order.
Log == impl.connection.log

\* C27: after Break the engine never calls SendData, and where it both
\* writes a close frame and breaks the transport the write comes first: in
\* the order of the calls on the transport no SendData follows a Break.
C27_NothingSentAfterBreak ==
    \A i \in 1..Len(Log) : \A j \in 1..Len(Log) :
        (i < j /\ Log[i] = "Break") => Log[j] # "SendData"

\* The engine wrote a close frame and then broke the transport, and after
\* that a sound ping frame was handed to ReceiveFrame.
C27_Witness ==
    /\ Len(Log) >= 2
    /\ Last(Log) = "Break"
    /\ Log[Len(Log) - 1] = "SendData"
    /\ WrittenOpcode(Last(Sent)) = OPCODE_CLOSE
    /\ Len(frames) >= 1
    /\ frames[Len(frames)].octets = PingFrame(impl.role)
    /\ frames[Len(frames)].before.closeSent
    /\ frames[Len(frames)].before.closeReceived


(***************************************************************************)
(* The message reassembly buffer and the receiving state, under            *)
(* SpecAssemble: fragments in and out of order, new messages begun inside  *)
(* a fragmented one, invalid text.                                         *)
(***************************************************************************)

\* C24: a non-empty message reassembly buffer implies that receiving is Text
\* or Binary, in every state after ReceiveData returned (and between the
\* frames of a chunk as well), after unexpected continuation frames, new
\* Text or Binary frames inside a fragmented message and frames answered by
\* a failure close.
C24_BufferedMeansReceiving ==
    impl.messageReassemblyBuffer # <<>> => impl.receiving \in {"Text", "Binary"}

\* ReceiveData returned after a text frame arrived inside a fragmented text
\* message and was answered by the failure close: the fragment is still
\* buffered and receiving is still Text.
C24_Witness ==
    /\ pc["net"] = "idle"
    /\ Len(frames) = 2
    /\ frames[1].octets = TextStart(impl.role)
    /\ frames[2].octets = TextFrame(impl.role)
    /\ impl.closeSent /\ impl.closeReceived
    /\ impl.messageReassemblyBuffer = <<72>>
    /\ impl.receiving = "Text"


(***************************************************************************)
(* SpecSplit: one octet stream delivered in chunks of any size.  The       *)
(* chunks are frames, runs of frames and pieces of them, cut inside        *)
(* headers, keys and payloads; maxFrameSize is 0 and the application       *)
(* calls nothing.                                                          *)
(***************************************************************************)
MaxSplitChunks == 3
MaxSplitFrames == 5

SplitStream(role) == PingFrame(role) \o TextStart(role) \o ContinuationEnd(role)

\* A final binary frame, masked as the role wants it, whose 64-bit length
\* makes headerLength + payloadLength wrap around to 0.
WrappedFrame(role) ==
    IF role = "Server"
    THEN LongFrame(TRUE, <<255, 255, 255, 255, 255, 255, 255, 242>>, PeerKey)
    ELSE LongFrame(FALSE, <<255, 255, 255, 255, 255, 255, 255, 246>>, <<>>)

SplitChunks(role) ==
    { SplitStream(role),
      SubSeq(SplitStream(role), 1, 1),
      SubSeq(SplitStream(role), 2, Len(SplitStream(role))),
      SubSeq(SplitStream(role), 1, Len(PingFrame(role)) + 2),
      SubSeq(SplitStream(role), Len(PingFrame(role)) + 3, Len(SplitStream(role))),
      CloseNormal(role) \o PingFrame(role),
      SubSeq(CloseNormal(role), 1, 3),
      SubSeq(CloseNormal(role) \o PingFrame(role), 4,
             Len(CloseNormal(role) \o PingFrame(role))),
      WrappedFrame(role),
      SubSeq(WrappedFrame(role), 1, 5),
      SubSeq(WrappedFrame(role), 6, Len(WrappedFrame(role))) }

NextSplit ==
    \/ \E role \in Role : Open(role)
    \/ chunks < MaxSplitChunks /\ \E data \in SplitChunks(impl.role) :
           DataReceived(data, PeerKey)
    \/ ReceiveDataFrame(PeerKey)
    \/ Len(frames) < MaxSplitFrames /\ ReceiveDataFrameOverrun(PeerKey)
    \/ ReceiveDataReturn
    \/ ProcessEventQueue("net")

SpecSplit == Init /\ [][NextSplit]_vars

\* The octets delivered so far: those erased from the reassembly buffer with
\* the frames handed to ReceiveFrame, then those still in it.
RECURSIVE Erased(_)
Erased(n) == IF n = 0 THEN <<>> ELSE Erased(n - 1) \o frames[n].octets

Delivered == Erased(Len(frames)) \o impl.frameReassemblyBuffer

\* The engine with a transport and the given role to which the stream is
\* delivered in one chunk.
Whole(role, stream) ==
    ReceiveDataLoop(
        ReceiveDataEnter([NewImpl(role) EXCEPT !.connection.bound = TRUE],
                         stream),
        PeerKey)

\* What chunking independence compares.
Observed(s) ==
    [ eventQueue |-> s.eventQueue,
      sent |-> s.connection.sent,
      breaks |-> s.connection.breaks,
      closeSent |-> s.closeSent,
      closeReceived |-> s.closeReceived,
      receiving |-> s.receiving,
      messageReassemblyBuffer |-> s.messageReassemblyBuffer,
      frameReassemblyBuffer |-> s.frameReassemblyBuffer ]

====
